---- MODULE Spec2Model ----
(***************************************************************************)
(* Event lifecycle of the webinar bot: the event document (events.json),   *)
(* the current-event pointer, the settings mirror, the roster backend's    *)
(* sheet list and the cached event index, driven by the EventStore         *)
(* functions of events.py and the admin handlers that compose them.        *)
(*                                                                         *)
(* Time is counted in minutes from an epoch taken as 2025-01-01 00:00 UTC. *)
(* Text (titles, event ids, sheet names) is a sequence of one-character    *)
(* strings so that slugs, suffixes and the sheet-name pattern are computed *)
(* character by character.  Python's None is NoId for ids and names,       *)
(* NoTime for timestamps, EmptyDt for an empty datetime string and NoZone  *)
(* for a missing timezone.                                                 *)
(*                                                                         *)
(* The Event fields description, pay_url, sheet_link and created_at are    *)
(* written by create_event and merged by update_event exactly like title   *)
(* and zoom_url and are read by no lifecycle code; they are not carried.   *)
(* Of the settings mirror only the keys the scheduler and the roster       *)
(* lookup read are carried (id, sheet name, datetime); of an index entry   *)
(* the event id and the sheet name.  Every run is MaxOps operations long   *)
(* (MaxSchedOps for the reminder engine).                                  *)
(*                                                                         *)
(* The reminder engine (scheduler.py, reminders.py) adds the two job       *)
(* registries, the roster rows and the awaiting-feedback set.  A job id or *)
(* name is text too; its fixed parts ("::", "day_before", "event::") are   *)
(* single elements of the sequence.  A date-trigger job leaves its         *)
(* registry when it fires.                                                 *)
(***************************************************************************)
EXTENDS Integers, Sequences, FiniteSets, TLC

VARIABLES now, events, current_event_id, settings, sheets, index, last, hist, ops,
          jobs, user_jobs, rows, awaiting_feedback, fired

\* the job registry of the process-wide scheduler, the application's job
\* queue, the rows of the roster worksheets, bot_data["awaiting_feedback"]
\* and what the last job callback did
schedVars == <<jobs, user_jobs, rows, awaiting_feedback, fired>>

vars == <<now, events, current_event_id, settings, sheets, index, last, hist, ops,
          jobs, user_jobs, rows, awaiting_feedback, fired>>

----------------------------------------------------------------------------
(* Bounds of the model *)

MaxEvents == 2

MaxTicks == 2

MaxOps == 4

MaxSchedOps == 5

MaxIndexOps == 4

MaxIndexMinutes == 6

----------------------------------------------------------------------------
(* Units and constants of the program *)

Hour == 60

Day == 24 * Hour

MskOffset == 180

TIMEZONE == "Europe/Moscow"

StalenessMinutes == 5

NoId == << >>

NoTime == 0 - 1

NoInstant == 0 - 1

NoZone == ""

NaiveOff == 0 - 9999

EmptyDt == [wall |-> 0, off |-> 0 - 8888]

----------------------------------------------------------------------------
(* Text helpers *)

DigitChars == <<"0", "1", "2", "3", "4", "5", "6", "7", "8", "9">>

DigitSet == {DigitChars[i] : i \in 1..10}

RECURSIVE Str(_)
Str(n) ==
    IF n < 10 THEN <<DigitChars[n + 1]>>
    ELSE Str(n \div 10) \o <<DigitChars[(n % 10) + 1]>>

TwoDigits(n) == IF n < 10 THEN <<"0">> \o Str(n) ELSE Str(n)

WordChars == {"a", "b", "x", "A", "B", "_"} \cup DigitSet

SpaceChars == {" "}

Lower(c) == CASE c = "A" -> "a" [] c = "B" -> "b" [] OTHER -> c

LowerText(s) == [i \in DOMAIN s |-> Lower(s[i])]

CharRank(c) ==
    CASE c = " " -> 32 [] c = "!" -> 33 [] c = "-" -> 45
      [] c \in DigitSet -> 48 + (CHOOSE d \in 0..9 : DigitChars[d + 1] = c)
      [] c = "A" -> 65 [] c = "B" -> 66 [] c = "_" -> 95
      [] c = "a" -> 97 [] c = "b" -> 98 [] c = "x" -> 120
      [] OTHER -> 127

RECURSIVE TextLess(_, _)
TextLess(s, t) ==
    IF t = << >> THEN FALSE
    ELSE IF s = << >> THEN TRUE
    ELSE IF CharRank(Head(s)) # CharRank(Head(t))
         THEN CharRank(Head(s)) < CharRank(Head(t))
    ELSE TextLess(Tail(s), Tail(t))

RECURSIVE LStrip(_)
LStrip(s) ==
    IF s # << >> /\ Head(s) \in SpaceChars THEN LStrip(Tail(s)) ELSE s

RECURSIVE RStrip(_)
RStrip(s) ==
    IF s # << >> /\ s[Len(s)] \in SpaceChars
    THEN RStrip(SubSeq(s, 1, Len(s) - 1)) ELSE s

RECURSIVE DropRun(_, _)
DropRun(s, cls) ==
    IF s # << >> /\ Head(s) \in cls THEN DropRun(Tail(s), cls) ELSE s

RECURSIVE ReplaceRuns(_, _, _)
ReplaceRuns(s, cls, rep) ==
    IF s = << >> THEN << >>
    ELSE IF Head(s) \in cls THEN <<rep>> \o ReplaceRuns(DropRun(s, cls), cls, rep)
    ELSE <<Head(s)>> \o ReplaceRuns(Tail(s), cls, rep)

KeepSlugChar(c) == c \in WordChars \cup SpaceChars \cup {"-"}

_slugify(text) ==
    LET kept == SelectSeq(text, KeepSlugChar)
        normalized == LowerText(RStrip(LStrip(kept)))
        dashed == ReplaceRuns(normalized, SpaceChars \cup {".", "/"}, "-")
        collapsed == ReplaceRuns(dashed, {"-"}, "-")
    IN  IF collapsed = << >> THEN <<"e", "v", "e", "n", "t">> ELSE collapsed

----------------------------------------------------------------------------
(* Dates, zones and ISO strings *)

ValidZone(tz) == tz \in {"UTC", "Europe/Moscow"}

ZoneOff(tz) == IF tz = "UTC" THEN 0 ELSE MskOffset

\* datetime.isoformat() of an aware datetime: wall-clock reading and offset
IsoFormat(inst, off) == [wall |-> inst + off, off |-> off]

\* strftime("%Y-%m-%d") of an instant rendered in the bot's zone
DatePart(inst) ==
    <<"2", "0", "2", "5", "-", "0", "1", "-">>
        \o TwoDigits(1 + ((inst + ZoneOff(TIMEZONE)) \div Day))

FromIsoOffsetBlind(ev) ==
    IF ev.datetime_local = EmptyDt THEN NoInstant
    ELSE ev.datetime_local.wall

\* Event.parsed_datetime: the absolute instant, or NoInstant for None
parsed_datetime(ev) ==
    IF ev.datetime_local = EmptyDt THEN NoInstant
    ELSE IF ev.datetime_local.off = NaiveOff
         THEN ev.datetime_local.wall
                - (IF ValidZone(ev.timezone) THEN ZoneOff(ev.timezone)
                   ELSE ZoneOff(TIMEZONE))
    ELSE ev.datetime_local.wall - ev.datetime_local.off

\* astimezone keeps the instant
_event_local_datetime(ev) == parsed_datetime(ev)

classify_status(ev, t) ==
    IF ev.status = "cancelled" THEN "cancelled"
    ELSE IF _event_local_datetime(ev) = NoInstant
         THEN (IF ev.status = "" THEN "active" ELSE ev.status)
    ELSE IF _event_local_datetime(ev) <= t THEN "past" ELSE "active"

----------------------------------------------------------------------------
(* Settings mirror (config.py) *)

_DEFAULT_SETTINGS ==
    [current_event_id |-> NoId, current_event_sheet_name |-> NoId,
     current_event_datetime |-> EmptyDt]

\* kwargs whose value is None are dropped before the merge
update_settings(cur, kwargs, noneKeys) ==
    [k \in DOMAIN cur |->
        IF k \in DOMAIN kwargs /\ k \notin noneKeys THEN kwargs[k] ELSE cur[k]]

----------------------------------------------------------------------------
(* Roster backend (database.py): the ordered list of worksheet titles *)

get_or_create_sheet(sh, name) ==
    IF \E i \in DOMAIN sh : sh[i] = name THEN sh ELSE Append(sh, name)

IsDigitAt(s, i) == i <= Len(s) /\ s[i] \in DigitSet

\* ^\d{4}-\d{2}-\d{2}__[\w-]+(?:-\d+)?$
SHEET_NAME_PATTERN(name) ==
    /\ Len(name) >= 13
    /\ \A i \in {1, 2, 3, 4, 6, 7, 9, 10} : IsDigitAt(name, i)
    /\ name[5] = "-" /\ name[8] = "-"
    /\ name[11] = "_" /\ name[12] = "_"
    /\ \A i \in 13..Len(name) : name[i] \in WordChars \cup {"-"}

ReservedSheets == {<<"S", "h", "e", "e", "t", "1">>}

\* names of the worksheets that enter the sheet map, in backend order
_collect_sheet_index(sh) ==
    SelectSeq(sh, LAMBDA n : n # << >> /\ n \notin ReservedSheets
                             /\ SHEET_NAME_PATTERN(n))

----------------------------------------------------------------------------
(* Status refresh *)

AutoUpdateNoSkip(evs, t) ==
    [i \in DOMAIN evs |->
        IF _event_local_datetime(evs[i]) = NoInstant THEN evs[i]
        ELSE LET status == IF _event_local_datetime(evs[i]) <= t
                           THEN "past" ELSE "active"
             IN  IF evs[i].status # status
                 THEN [evs[i] EXCEPT !.status = status, !.updated_at = t]
                 ELSE evs[i]]

\* the event list as _auto_update_status leaves it (and stores it when changed)
_auto_update_status(evs, t) ==
    [i \in DOMAIN evs |->
        IF evs[i].status = "cancelled" THEN evs[i]
        ELSE IF _event_local_datetime(evs[i]) = NoInstant THEN evs[i]
        ELSE LET status == IF _event_local_datetime(evs[i]) <= t
                           THEN "past" ELSE "active"
             IN  IF evs[i].status # status
                 THEN [evs[i] EXCEPT !.status = status, !.updated_at = t]
                 ELSE evs[i]]

HasEvent(evs, id) == \E i \in DOMAIN evs : evs[i].event_id = id

\* _find_event_index: the first position holding the id
_find_event_index(evs, id) ==
    CHOOSE i \in DOMAIN evs :
        /\ evs[i].event_id = id
        /\ \A j \in DOMAIN evs : evs[j].event_id = id => i <= j

----------------------------------------------------------------------------
(* Event index (cache of the listing) *)

\* no index file on disk
EmptyFile == [keys |-> {}, fetched_at |-> NoTime, items |-> << >>]

\* _events_index_cache = {} and the index file; bot_data["events_index"] is
\* the cache dict itself once _set_index_state has run
EmptyIndex ==
    [keys |-> {}, fetched_at |-> NoTime, items |-> << >>, file |-> EmptyFile]

\* _set_index_state: the cache is replaced and the file written
_set_index_state(ix, state) ==
    [keys |-> state.keys, fetched_at |-> state.fetched_at, items |-> state.items,
     file |-> state]

\* _get_index_state: an empty cache is filled from the index file
_get_index_state(ix) ==
    IF ix.keys # {} THEN ix
    ELSE IF ix.file.keys # {}
         THEN [keys |-> ix.file.keys, fetched_at |-> ix.file.fetched_at,
               items |-> ix.file.items, file |-> ix.file]
    ELSE ix

_mark_index_stale(ix) ==
    [ix EXCEPT !.keys = @ \cup {"fetched_at"}, !.fetched_at = NoTime]

StatusOrder(st) ==
    CASE st = "active" -> 0 [] st = "past" -> 1 [] st = "cancelled" -> 2
      [] OTHER -> 3

SortTs(ev) == IF parsed_datetime(ev) = NoInstant THEN 0 ELSE parsed_datetime(ev)

\* sort_key(a) < sort_key(b) for the key (order, -ts, title.lower())
SortKeyLess(a, b, t) ==
    LET oa == StatusOrder(classify_status(a, t))
        ob == StatusOrder(classify_status(b, t))
    IN  \/ oa < ob
        \/ oa = ob /\ SortTs(a) > SortTs(b)
        \/ oa = ob /\ SortTs(a) = SortTs(b)
              /\ TextLess(LowerText(a.title), LowerText(b.title))

RECURSIVE InsertSorted(_, _, _)
InsertSorted(x, s, t) ==
    IF s = << >> THEN <<x>>
    ELSE IF SortKeyLess(x, Head(s), t) THEN <<x>> \o s
    ELSE <<Head(s)>> \o InsertSorted(x, Tail(s), t)

RECURSIVE SortPrefix(_, _, _)
SortPrefix(evs, n, t) ==
    IF n = 0 THEN << >>
    ELSE InsertSorted(evs[n], SortPrefix(evs, n - 1, t), t)

\* list.sort is stable: equal keys keep their order in the document
_sorted_events(evs, t) == SortPrefix(evs, Len(evs), t)

_placeholder_event_dict(name, t) ==
    [event_id |-> name, title |-> name, datetime_local |-> EmptyDt,
     timezone |-> TIMEZONE, zoom_url |-> "", sheet_name |-> name,
     status |-> "active", updated_at |-> t]

SheetKey(ev) == IF ev.sheet_name # NoId THEN ev.sheet_name ELSE ev.event_id

BuildIndexItemsAllSheets(evs, sh, t) ==
    LET sheet_map == _collect_sheet_index(sh)
        ordered == _sorted_events(evs, t)
    IN  [i \in DOMAIN ordered |->
            [event_id |-> ordered[i].event_id, sheet_name |-> SheetKey(ordered[i]),
             event |-> ordered[i]]]
        \o [i \in DOMAIN sheet_map |->
              [event_id |-> sheet_map[i], sheet_name |-> sheet_map[i],
               event |-> _placeholder_event_dict(sheet_map[i], t)]]

_build_index_items(evs, sh, t) ==
    LET sheet_map == _collect_sheet_index(sh)
        InMap(n) == \E i \in DOMAIN sheet_map : sheet_map[i] = n
        ordered == _sorted_events(evs, t)
        entries == [i \in DOMAIN ordered |->
                      [event_id |-> ordered[i].event_id,
                       sheet_name |->
                          IF InMap(SheetKey(ordered[i])) THEN SheetKey(ordered[i])
                          ELSE IF InMap(ordered[i].event_id)
                               THEN ordered[i].event_id
                          ELSE SheetKey(ordered[i]),
                       event |-> ordered[i]]]
        seen == {SheetKey(evs[i]) : i \in DOMAIN evs}
                    \cup {evs[i].event_id : i \in DOMAIN evs}
        extra == SelectSeq(sheet_map, LAMBDA n : n \notin seen)
    IN  entries \o [i \in DOMAIN extra |->
                      [event_id |-> extra[i], sheet_name |-> extra[i],
                       event |-> _placeholder_event_dict(extra[i], t)]]

\* the first event holding the greatest start; else the first event; else None
_pick_latest_event_id(evs) ==
    LET dated == {i \in DOMAIN evs : parsed_datetime(evs[i]) # NoInstant}
    IN  IF dated # {}
        THEN LET best == CHOOSE i \in dated :
                    /\ \A j \in dated :
                          parsed_datetime(evs[j]) <= parsed_datetime(evs[i])
                    /\ \A j \in dated :
                          parsed_datetime(evs[j]) = parsed_datetime(evs[i])
                              => i <= j
             IN  IF evs[best].event_id # NoId THEN evs[best].event_id
                 ELSE evs[1].event_id
        ELSE IF evs # << >> THEN evs[1].event_id
        ELSE NoId

----------------------------------------------------------------------------
(* EventStore operations.  A store value S gathers the event document      *)
(* (events, cur), the settings mirror, the backend's sheets and the index. *)

Store(evs, cur, st, sh, ix) ==
    [events |-> evs, cur |-> cur, settings |-> st, sheets |-> sh, index |-> ix]

set_current_event(S, event_id, t) ==
    LET evs == _auto_update_status(S.events, t)
        found == event_id # NoId /\ HasEvent(evs, event_id)
        event == evs[_find_event_index(evs, event_id)]
    IN  Store(evs, event_id,
              IF found
              THEN update_settings(S.settings,
                        [current_event_id |-> event.event_id,
                         current_event_sheet_name |-> event.sheet_name,
                         current_event_datetime |-> event.datetime_local], {})
              ELSE update_settings(S.settings,
                        [current_event_id |-> NoId,
                         current_event_sheet_name |-> NoId,
                         current_event_datetime |-> EmptyDt],
                        {"current_event_id", "current_event_sheet_name",
                         "current_event_datetime"}),
              IF found THEN get_or_create_sheet(S.sheets, event.sheet_name)
              ELSE S.sheets,
              _mark_index_stale(S.index))

get_event(S, event_id, t) ==
    IF HasEvent(S.events, event_id)
    THEN [S EXCEPT !.events = _auto_update_status(S.events, t)]
    ELSE S

get_current_event(S, t) ==
    IF S.cur = NoId THEN S ELSE get_event(S, S.cur, t)

\* has_active_event, get_active_event and list_events refresh alike
RefreshRead(S, t) == [S EXCEPT !.events = _auto_update_status(S.events, t)]

has_active_event(S, t) ==
    \E i \in DOMAIN S.events :
        classify_status(_auto_update_status(S.events, t)[i], t) = "active"

\* sort_key of get_active_event: the instant, datetime.max when there is none
MaxSortKey == 1000000

sort_key(ev) ==
    IF parsed_datetime(ev) = NoInstant THEN MaxSortKey ELSE parsed_datetime(ev)

PreferredUnchecked(evs, cur, t) ==
    IF cur # NoId /\ HasEvent(evs, cur) THEN cur ELSE NoId

\* the pointed-to event's id when that event classifies as active
Preferred(evs, cur, t) ==
    IF cur # NoId /\ HasEvent(evs, cur)
       /\ classify_status(evs[_find_event_index(evs, cur)], t) = "active"
    THEN cur ELSE NoId

\* get_active_event: the id of the event returned (NoId for None), computed
\* on the refreshed list; list.sort is stable, so ties keep list order
get_active_event(S, t) ==
    LET evs == _auto_update_status(S.events, t)
        active_events == {i \in DOMAIN evs : classify_status(evs[i], t) = "active"}
        first == CHOOSE i \in active_events :
                    \A j \in active_events :
                        \/ sort_key(evs[i]) < sort_key(evs[j])
                        \/ sort_key(evs[i]) = sort_key(evs[j]) /\ i <= j
    IN  IF Preferred(evs, S.cur, t) # NoId THEN Preferred(evs, S.cur, t)
        ELSE IF active_events = {} THEN NoId
        ELSE evs[first].event_id

MergeFieldsNoneOverwrites(ev, fields) ==
    [k \in DOMAIN ev |-> IF k \in DOMAIN fields.vals THEN fields.vals[k] ELSE ev[k]]

\* fields: vals maps each given key to its value, nones holds the keys
\* given as None
MergeFields(ev, fields) ==
    [k \in DOMAIN ev |->
        IF k \in DOMAIN fields.vals /\ k \notin fields.nones
        THEN fields.vals[k] ELSE ev[k]]

update_event(S, event_id, fields, t) ==
    LET idx == _find_event_index(S.events, event_id)
        event == [MergeFields(S.events[idx], fields) EXCEPT !.updated_at = t]
        S1 == [S EXCEPT !.events = [S.events EXCEPT ![idx] = event]]
        S2 == IF S.cur = event_id THEN set_current_event(S1, event_id, t) ELSE S1
    IN  [S2 EXCEPT !.index = _mark_index_stale(S2.index)]

Candidate(base, suffix) ==
    IF suffix = 1 THEN base ELSE base \o <<"-">> \o Str(suffix)

RECURSIVE FirstFree(_, _, _)
FirstFree(base, existing_ids, suffix) ==
    IF Candidate(base, suffix) \in existing_ids
    THEN FirstFree(base, existing_ids, suffix + 1)
    ELSE Candidate(base, suffix)

GenerateIdUnchecked(title, inst, evs) ==
    DatePart(inst) \o <<"_", "_">> \o _slugify(title)

_generate_event_id(title, inst, evs) ==
    FirstFree(DatePart(inst) \o <<"_", "_">> \o _slugify(title),
              {evs[i].event_id : i \in DOMAIN evs}, 1)

ForcePastNoSkip(evs, t) ==
    [i \in DOMAIN evs |->
        IF evs[i].status # "past"
        THEN [evs[i] EXCEPT !.status = "past", !.updated_at = t]
        ELSE evs[i]]

ForcePast(evs, t) ==
    [i \in DOMAIN evs |->
        IF evs[i].status = "cancelled" THEN evs[i]
        ELSE IF evs[i].status # "past"
             THEN [evs[i] EXCEPT !.status = "past", !.updated_at = t]
        ELSE evs[i]]

CreateKeepingPointer(S, title, inst, timezone, zoom_url, t) ==
    LET forced == ForcePast(_auto_update_status(S.events, t), t)
        event_id == _generate_event_id(title, inst, S.events)
        tzname == IF ValidZone(timezone) THEN timezone ELSE TIMEZONE
        event == [event_id |-> event_id, title |-> title,
                  datetime_local |-> IsoFormat(inst, ZoneOff(tzname)),
                  timezone |-> tzname, zoom_url |-> zoom_url,
                  sheet_name |-> event_id, status |-> "active",
                  updated_at |-> t]
    IN  [S EXCEPT !.events = Append(forced, event),
                  !.sheets = get_or_create_sheet(S.sheets, event_id),
                  !.index = _mark_index_stale(S.index)]

create_event(S, title, inst, timezone, zoom_url, t) ==
    LET forced == ForcePast(_auto_update_status(S.events, t), t)
        event_id == _generate_event_id(title, inst, S.events)
        tzname == IF ValidZone(timezone) THEN timezone ELSE TIMEZONE
        event == [event_id |-> event_id, title |-> title,
                  datetime_local |-> IsoFormat(inst, ZoneOff(tzname)),
                  timezone |-> tzname, zoom_url |-> zoom_url,
                  sheet_name |-> event_id, status |-> "active",
                  updated_at |-> t]
        S1 == [S EXCEPT !.events = Append(forced, event),
                        !.sheets = get_or_create_sheet(S.sheets, event_id)]
        S2 == set_current_event(S1, event_id, t)
    IN  [S2 EXCEPT !.index = _mark_index_stale(S2.index)]

events_bootstrap(S, t) ==
    LET items == _build_index_items(S.events, S.sheets, t)
        valid == S.cur # NoId /\ HasEvent(S.events, S.cur)
        cid == IF valid THEN S.cur ELSE _pick_latest_event_id(S.events)
        S1 == IF ~valid /\ cid # S.cur THEN set_current_event(S, cid, t) ELSE S
    IN  [S1 EXCEPT !.index =
            _set_index_state(@, [keys |-> {"fetched_at", "items", "current_event_id"},
                                 fetched_at |-> t, items |-> items])]

IsStaleWhenOlder(ix, t) ==
    \/ "fetched_at" \notin ix.keys
    \/ ix.fetched_at = NoTime
    \/ t - ix.fetched_at > StalenessMinutes

\* "if not fetched_raw" and "now - fetched_dt >= timedelta(minutes=5)"
IsStale(ix, t) ==
    \/ "fetched_at" \notin ix.keys
    \/ ix.fetched_at = NoTime
    \/ t - ix.fetched_at >= StalenessMinutes

events_refresh_if_stale(S, t) ==
    LET S0 == [S EXCEPT !.index = _get_index_state(@)]
    IN  IF IsStale(S0.index, t) THEN events_bootstrap(S0, t) ELSE S0

\* the index state get_events_page reads: "if not state: events_bootstrap"
PageState(S, t) ==
    LET S0 == [S EXCEPT !.index = _get_index_state(@)]
    IN  IF S0.index.keys = {} THEN events_bootstrap(S0, t) ELSE S0

\* the store and index get_events_page leaves behind
get_events_page(S, t) ==
    LET S1 == PageState(S, t)
    IN  IF Len(S1.index.items) = 0 THEN S1
        ELSE [S1 EXCEPT !.events = _auto_update_status(S1.events, t)]

\* "if size <= 0: size = 5"
DefaultPageSize == 5

\* the entry's cached snapshot, whatever the store holds
HydrateFromSnapshot(entry, evs) == entry.event

\* _hydrate_entry: the store's event when there is one, else the snapshot
_hydrate_entry(entry, evs) ==
    IF HasEvent(evs, entry.event_id)
    THEN evs[_find_event_index(evs, entry.event_id)]
    ELSE entry.event

Min(a, b) == IF a < b THEN a ELSE b

Max(a, b) == IF a > b THEN a ELSE b

\* what get_events_page returns: (hydrated, total_pages, total, page)
PageOf(S, page, size, t) ==
    LET S1 == PageState(S, t)
        items == S1.index.items
        total == Len(items)
        sz == IF size <= 0 THEN DefaultPageSize ELSE size
        total_pages == (total + sz - 1) \div sz
        pg == Max(1, Min(page, total_pages))
        page_items == SubSeq(items, (pg - 1) * sz + 1, Min(pg * sz, total))
        evs == _auto_update_status(S1.events, t)
    IN  IF total = 0
        THEN [items |-> << >>, total_pages |-> 0, total |-> 0, page |-> 1]
        ELSE [items |-> [i \in DOMAIN page_items |->
                            _hydrate_entry(page_items[i], evs)],
              total_pages |-> total_pages, total |-> total, page |-> pg]

_show_event_list(S, t) == get_events_page(events_refresh_if_stale(S, t), t)

CancelFields == [vals |-> [status |-> "cancelled"], nones |-> {}]

CancelYesUnguarded(S, event_id, t) ==
    LET S1 == get_event(S, event_id, t)
    IN  IF ~HasEvent(S.events, event_id) THEN _show_event_list(S1, t)
        ELSE LET S2 == update_event(S1, event_id, CancelFields, t)
                 S3 == IF S2.cur = event_id
                       THEN set_current_event(S2, NoId, t) ELSE S2
             IN  _show_event_list(S3, t)

\* _handle_event_callback with action cancel_yes
cancel_yes(S, event_id, t) ==
    LET S1 == get_event(S, event_id, t)
    IN  IF ~HasEvent(S.events, event_id) THEN _show_event_list(S1, t)
        ELSE IF classify_status(
                    S1.events[_find_event_index(S1.events, event_id)], t)
                  # "active"
             THEN get_event(S1, event_id, t)
        ELSE LET S2 == update_event(S1, event_id, CancelFields, t)
                 S3 == IF S2.cur = event_id
                       THEN set_current_event(S2, NoId, t) ELSE S2
             IN  _show_event_list(S3, t)

----------------------------------------------------------------------------
(* Inputs *)

Titles == {<<"a">>, <<"A", " ", "2", "!">>}

EditTitles == {<<"b">>}

StartInstants == {Hour, 23 * Hour}

CreateZones == {"UTC", "Mars/Phobos"}

TickSteps == {Hour}

UnknownId == <<"x">>

ExternalSheet ==
    <<"2", "0", "2", "5", "-", "0", "1", "-", "0", "9", "_", "_", "x">>

InitialSheets ==
    {<<<<"S", "h", "e", "e", "t", "1">>>>,
     <<<<"S", "h", "e", "e", "t", "1">>, ExternalSheet>>}

EventIds == {events[i].event_id : i \in DOMAIN events}

\* the field sets the admin edit handlers pass to update_event
AdminFields(ev) ==
    {[vals |-> [title |-> tt], nones |-> {}] : tt \in EditTitles}
    \cup {[vals |-> [zoom_url |-> "z"], nones |-> {}]}
    \cup {[vals |-> [datetime_local |->
                        IsoFormat(inst,
                                  ZoneOff(IF ev.timezone # NoZone
                                          THEN ev.timezone ELSE TIMEZONE)),
                     timezone |-> IF ev.timezone # NoZone
                                  THEN ev.timezone ELSE TIMEZONE],
           nones |-> {}] : inst \in StartInstants}

\* field sets no handler passes but update_event accepts
RawFields ==
    {[vals |-> [event_id |-> UnknownId], nones |-> {}],
     [vals |-> [status |-> "active"], nones |-> {}],
     [vals |-> [status |-> "past"], nones |-> {}],
     [vals |-> [title |-> << >>, zoom_url |-> "z"], nones |-> {"title"}],
     [vals |-> [colour |-> "red"], nones |-> {}]}

----------------------------------------------------------------------------
(* State machine *)

Cur == Store(events, current_event_id, settings, sheets, index)

EventAt(id) == events[_find_event_index(events, id)]

Apply(S) ==
    /\ events' = S.events
    /\ current_event_id' = S.cur
    /\ settings' = S.settings
    /\ sheets' = S.sheets
    /\ index' = S.index

\* what a job callback did: the roster it read, the sends it attempted and
\* made, the chats it marked as awaiting feedback, whether it ran to its end
NoFire ==
    [kind |-> "none", event_id |-> NoId, chat_id |-> 0, roster |-> << >>,
     attempted |-> << >>, sent |-> << >>, marked |-> << >>, completed |-> TRUE]

Did(op, id, keys) ==
    [op |-> op, id |-> id, keys |-> keys, nones |-> {}, pre |-> ""]

Step == ops < MaxOps /\ ops' = ops + 1

Init ==
    /\ now = 0
    /\ events = << >>
    /\ current_event_id = NoId
    /\ settings = _DEFAULT_SETTINGS
    /\ sheets \in InitialSheets
    /\ index = EmptyIndex
    /\ last = Did("init", NoId, {})
    /\ hist = [start |-> << >>, created_id |-> << >>, cancelled |-> {}]
    /\ ops = 0
    /\ jobs = << >>
    /\ user_jobs = << >>
    /\ rows = << >>
    /\ awaiting_feedback = {}
    /\ fired = NoFire

Tick ==
    /\ Step
    /\ UNCHANGED schedVars
    /\ \E d \in TickSteps :
        /\ now + d <= MaxTicks * Hour
        /\ now' = now + d
        /\ last' = Did("tick", NoId, {})
        /\ UNCHANGED <<events, current_event_id, settings, sheets, index, hist>>

CreateEvent ==
    /\ Step
    /\ UNCHANGED schedVars
    /\ \E title \in Titles, inst \in StartInstants, tz \in CreateZones :
        /\ Len(events) < MaxEvents
        /\ Apply(create_event(Cur, title, inst, tz, "", now))
        /\ last' = Did("create", events'[Len(events')].event_id, {})
        /\ hist' = [hist EXCEPT
                        !.start = Append(@, inst),
                        !.created_id = Append(@, events'[Len(events')].event_id)]
        /\ UNCHANGED now

GetEvent ==
    /\ Step
    /\ UNCHANGED schedVars
    /\ \E id \in EventIds \cup {UnknownId} :
        /\ Apply(get_event(Cur, id, now))
        /\ last' = Did("get", id, {})
        /\ UNCHANGED <<now, hist>>

GetActiveEvent ==
    /\ Step
    /\ UNCHANGED schedVars
    /\ Apply(RefreshRead(Cur, now))
    /\ last' = Did("current", get_active_event(Cur, now), {})
    /\ UNCHANGED <<now, hist>>

ListEvents ==
    /\ Step
    /\ UNCHANGED schedVars
    /\ Apply(RefreshRead(Cur, now))
    /\ last' = Did("list", NoId, {})
    /\ UNCHANGED <<now, hist>>

ShowEventList ==
    /\ Step
    /\ UNCHANGED schedVars
    /\ Apply(_show_event_list(Cur, now))
    /\ last' = Did("get_page", NoId, {})
    /\ UNCHANGED <<now, hist>>

EventsBootstrap ==
    /\ Step
    /\ UNCHANGED schedVars
    /\ Apply(events_bootstrap(Cur, now))
    /\ last' = Did("bootstrap", NoId, {})
    /\ UNCHANGED <<now, hist>>

\* _activate_event_payload: look the event up, then repoint when it differs
ActivateEvent ==
    /\ Step
    /\ UNCHANGED schedVars
    /\ \E id \in EventIds :
        /\ LET S1 == get_event(Cur, id, now)
           IN  Apply(IF S1.cur # id THEN set_current_event(S1, id, now) ELSE S1)
        /\ last' = Did("set_current", id, {})
        /\ UNCHANGED <<now, hist>>

StartOfFields(fields, old) ==
    IF "datetime_local" \in DOMAIN fields.vals /\ "datetime_local" \notin fields.nones
    THEN fields.vals.datetime_local.wall - fields.vals.datetime_local.off
    ELSE old

UpdateWith(id, fields) ==
    /\ Step
    /\ UNCHANGED schedVars
    /\ Apply(update_event(Cur, id, fields, now))
    /\ last' = [Did("update", id, DOMAIN fields.vals \ fields.nones)
                    EXCEPT !.nones = fields.nones]
    /\ hist' = [hist EXCEPT !.start[_find_event_index(events, id)] =
                                StartOfFields(fields, @)]
    /\ UNCHANGED now

UpdateEvent ==
    \E id \in EventIds :
        \E fields \in AdminFields(events[_find_event_index(events, id)]) :
            UpdateWith(id, fields)

UpdateEventRaw ==
    \E id \in EventIds : \E fields \in RawFields : UpdateWith(id, fields)

CancelYes ==
    /\ Step
    /\ UNCHANGED schedVars
    /\ \E id \in EventIds \cup {UnknownId} :
        /\ Apply(cancel_yes(Cur, id, now))
        /\ last' = [Did("cancel", id, {}) EXCEPT
                        !.pre = IF HasEvent(events, id)
                                THEN classify_status(
                                        events[_find_event_index(events, id)], now)
                                ELSE "missing"]
        /\ hist' = IF HasEvent(events, id)
                      /\ classify_status(
                            events[_find_event_index(events, id)], now) = "active"
                   THEN [hist EXCEPT !.cancelled =
                            @ \cup {_find_event_index(events, id)}]
                   ELSE hist
        /\ UNCHANGED now

Next ==
    \/ Tick
    \/ CreateEvent
    \/ GetEvent
    \/ GetActiveEvent
    \/ ListEvents
    \/ ShowEventList
    \/ EventsBootstrap
    \/ ActivateEvent
    \/ UpdateEvent
    \/ CancelYes

Spec == Init /\ [][Next]_vars

NextApi == Next \/ UpdateEventRaw

SpecApi == Init /\ [][NextApi]_vars

----------------------------------------------------------------------------
(* Reminder engine.  A world value W gathers the store S, the two job      *)
(* registries, the roster rows and the awaiting-feedback set.              *)

World(S, jb, uj, rw, aw) ==
    [S |-> S, jobs |-> jb, user_jobs |-> uj, rows |-> rw, awaiting |-> aw]

StartsWith(s, prefix) ==
    Len(prefix) <= Len(s) /\ SubSeq(s, 1, Len(prefix)) = prefix

\* f"{event_id}::"
EventPrefix(event_id) == event_id \o <<"::">>

\* f"{event_id}::{kind}"
JobId(event_id, kind) == EventPrefix(event_id) \o <<kind>>

_clear_event_jobs(jb, event_id) ==
    SelectSeq(jb, LAMBDA j : ~(j.id # << >> /\ StartsWith(j.id, EventPrefix(event_id))))

\* some job of the registry is keyed to the event
HasJobs(jb, event_id) ==
    \E i \in DOMAIN jb : StartsWith(jb[i].id, EventPrefix(event_id))

CancelNothing(jb, event_id) == jb

cancel_scheduled_reminders(jb, event_id) == _clear_event_jobs(jb, event_id)

\* scheduler.add_job(..., replace_existing=True)
add_job(jb, job) ==
    IF \E i \in DOMAIN jb : jb[i].id = job.id
    THEN [i \in DOMAIN jb |-> IF jb[i].id = job.id THEN job ELSE jb[i]]
    ELSE Append(jb, job)

ScheduleJobAlways(jb, job_id, run_time, func, event_id, label, t) ==
    add_job(jb, [id |-> job_id, run_time |-> run_time, func |-> func,
                 event_id |-> event_id, label |-> label])

_schedule_job(jb, job_id, run_time, func, event_id, label, t) ==
    IF run_time <= t THEN jb
    ELSE add_job(jb, [id |-> job_id, run_time |-> run_time, func |-> func,
                      event_id |-> event_id, label |-> label])

ScheduleFourFeedbackAtStart(jb, event_id, event_dt, t) ==
    LET j1 == _schedule_job(jb, JobId(event_id, "day_before"), event_dt - Day,
                            "_send_timed_reminder", event_id, "day", t)
        j2 == _schedule_job(j1, JobId(event_id, "hour_before"), event_dt - Hour,
                            "_send_timed_reminder", event_id, "hour", t)
        j3 == _schedule_job(j2, JobId(event_id, "start"), event_dt,
                            "_send_timed_reminder", event_id, "start", t)
    IN  _schedule_job(j3, JobId(event_id, "feedback"), event_dt,
                      "_send_feedback_request", event_id, "feedback", t)

\* the four _schedule_job calls of schedule_all_reminders, in order
ScheduleFour(jb, event_id, event_dt, t) ==
    LET j1 == _schedule_job(jb, JobId(event_id, "day_before"), event_dt - Day,
                            "_send_timed_reminder", event_id, "day", t)
        j2 == _schedule_job(j1, JobId(event_id, "hour_before"), event_dt - Hour,
                            "_send_timed_reminder", event_id, "hour", t)
        j3 == _schedule_job(j2, JobId(event_id, "start"), event_dt,
                            "_send_timed_reminder", event_id, "start", t)
    IN  _schedule_job(j3, JobId(event_id, "feedback"), event_dt + Day,
                      "_send_feedback_request", event_id, "feedback", t)

PlannedJobsKeepingOld(jb, event_id, event_dt, t) ==
    LET mk(kind, rt, func, label) ==
            [id |-> JobId(event_id, kind), run_time |-> rt, func |-> func,
             event_id |-> event_id, label |-> label]
    IN  jb \o <<mk("day_before", event_dt - Day, "_send_timed_reminder", "day"),
                mk("hour_before", event_dt - Hour, "_send_timed_reminder", "hour"),
                mk("start", event_dt, "_send_timed_reminder", "start"),
                mk("feedback", event_dt + Day, "_send_feedback_request", "feedback")>>

\* _clear_event_jobs followed by the four _schedule_job calls
PlannedJobs(jb, event_id, event_dt, t) ==
    ScheduleFour(_clear_event_jobs(jb, event_id), event_id, event_dt, t)

\* _user_job_prefix and _user_job_name
_user_job_prefix(event_id) == <<"event::">> \o event_id \o <<"::user::">>

_user_job_name(event_id, chat_id, label) ==
    _user_job_prefix(event_id) \o Str(chat_id) \o <<"::">> \o <<label>>

\* _cancel_event_jobs of reminders.py; NoChat stands for chat_id=None
NoChat == 0

CancelEventJobsAnyChat(uj, event_id, chat_id) ==
    SelectSeq(uj, LAMBDA j : j.event_id # event_id)

_cancel_event_jobs(uj, event_id, chat_id) ==
    SelectSeq(uj, LAMBDA j :
        ~(IF event_id # NoId
          THEN IF chat_id # NoChat
               THEN \/ StartsWith(j.name, _user_job_prefix(event_id)
                                            \o Str(chat_id) \o <<"::">>)
                    \/ (j.event_id = event_id /\ j.chat_id = chat_id)
               ELSE \/ StartsWith(j.name, _user_job_prefix(event_id))
                    \/ j.event_id = event_id
          ELSE StartsWith(j.name, <<"event::">>)))

cancel_event_user_reminders(uj, event_id) == _cancel_event_jobs(uj, event_id, NoChat)

\* REMINDER_LABELS
REMINDER_LABELS == <<[label |-> "day", delta |-> Day], [label |-> "hour", delta |-> Hour]>>

RECURSIVE ScheduleLabels(_, _, _, _, _, _)
ScheduleLabels(uj, n, event_id, chat_id, event_dt, t) ==
    IF n > Len(REMINDER_LABELS) THEN uj
    ELSE LET run_at == event_dt - REMINDER_LABELS[n].delta
             next == IF run_at <= t THEN uj
                     ELSE Append(uj, [name |-> _user_job_name(event_id, chat_id,
                                                    REMINDER_LABELS[n].label),
                                      run_time |-> run_at, chat_id |-> chat_id,
                                      event_id |-> event_id,
                                      label |-> REMINDER_LABELS[n].label])
         IN  ScheduleLabels(next, n + 1, event_id, chat_id, event_dt, t)

ScheduleBothLabels(uj, event_id, chat_id, event_dt, t) ==
    uj \o [n \in DOMAIN REMINDER_LABELS |->
              [name |-> _user_job_name(event_id, chat_id, REMINDER_LABELS[n].label),
               run_time |-> event_dt - REMINDER_LABELS[n].delta,
               chat_id |-> chat_id, event_id |-> event_id,
               label |-> REMINDER_LABELS[n].label]]

_schedule_event_jobs_for_chat(uj, event_id, chat_id, event_dt, t) ==
    ScheduleLabels(uj, 1, event_id, chat_id, event_dt, t)

\* the chat ids of one worksheet, row by row; blank cells are skipped
SheetChats(rw, sheet_name) ==
    LET mine == SelectSeq(rw, LAMBDA r : r.sheet = sheet_name /\ r.chat_id # NoChat)
    IN  [i \in DOMAIN mine |-> mine[i].chat_id]

\* get_current_worksheet raises when no sheet name is configured
CurrentSheetConfigured(S) == S.settings.current_event_sheet_name # NoId

\* get_current_worksheet creates the worksheet when it is missing
get_current_worksheet(S) ==
    [S EXCEPT !.sheets = get_or_create_sheet(S.sheets,
                                             S.settings.current_event_sheet_name)]

ListAllChats(W) == [i \in DOMAIN W.rows |-> W.rows[i].chat_id]

\* list_chat_ids and get_participants() both read the current worksheet
list_chat_ids(W) == SheetChats(W.rows, W.S.settings.current_event_sheet_name)

get_participants(W) == SheetChats(W.rows, W.S.settings.current_event_sheet_name)

RECURSIVE ScheduleChats(_, _, _, _, _, _)
ScheduleChats(uj, chats, n, event_id, event_dt, t) ==
    IF n > Len(chats) THEN uj
    ELSE ScheduleChats(
            _schedule_event_jobs_for_chat(uj, event_id, chats[n], event_dt, t),
            chats, n + 1, event_id, event_dt, t)

StoreEvent(S, event_id) == S.events[_find_event_index(S.events, event_id)]

\* the planning shared by plan_user_event_reminders and
\* replan_event_user_reminders once the old jobs are cancelled
Plannable(S, event_id, t) ==
    /\ HasEvent(S.events, event_id)
    /\ classify_status(StoreEvent(S, event_id), t) = "active"
    /\ parsed_datetime(StoreEvent(S, event_id)) # NoInstant

replan_event_user_reminders(W, event_id, t) ==
    LET uj == _cancel_event_jobs(W.user_jobs, event_id, NoChat)
        S1 == get_event(W.S, event_id, t)
    IN  IF ~Plannable(S1, event_id, t) \/ ~CurrentSheetConfigured(S1)
        THEN [W EXCEPT !.S = S1, !.user_jobs = uj]
        ELSE [W EXCEPT
                !.S = get_current_worksheet(S1),
                !.user_jobs = ScheduleChats(uj, list_chat_ids(W), 1, event_id,
                                  parsed_datetime(StoreEvent(S1, event_id)), t)]

plan_user_event_reminders(W, chat_id, event_id, t) ==
    LET uj == _cancel_event_jobs(W.user_jobs, event_id, chat_id)
        S1 == get_event(W.S, event_id, t)
    IN  IF ~Plannable(S1, event_id, t)
        THEN [W EXCEPT !.S = S1, !.user_jobs = uj]
        ELSE [W EXCEPT
                !.S = S1,
                !.user_jobs = _schedule_event_jobs_for_chat(uj, event_id, chat_id,
                                  parsed_datetime(StoreEvent(S1, event_id)), t)]

\* datetime.fromisoformat of the mirrored start; a naive value is read in TIMEZONE
SettingsInstant(st) ==
    IF st.current_event_datetime.off = NaiveOff
    THEN st.current_event_datetime.wall - ZoneOff(TIMEZONE)
    ELSE st.current_event_datetime.wall - st.current_event_datetime.off

schedule_all_reminders(W, t) ==
    LET st == W.S.settings
        event_id == st.current_event_id
        event_dt == SettingsInstant(st)
        S1 == get_event(W.S, event_id, t)
        W1 == [W EXCEPT !.S = S1]
        cleared == [W1 EXCEPT
                      !.jobs = cancel_scheduled_reminders(W.jobs, event_id),
                      !.user_jobs = cancel_event_user_reminders(W.user_jobs, event_id)]
    IN  IF st.current_event_datetime = EmptyDt \/ event_id = NoId
        THEN [W EXCEPT !.jobs = << >>,
                       !.user_jobs = cancel_event_user_reminders(W.user_jobs, NoId)]
        ELSE IF HasEvent(S1.events, event_id)
                /\ classify_status(StoreEvent(S1, event_id), t) = "cancelled"
        THEN cleared
        ELSE IF event_dt <= t THEN cleared
        ELSE replan_event_user_reminders(
                [W1 EXCEPT !.jobs = PlannedJobs(W.jobs, event_id, event_dt, t)],
                event_id, t)

----------------------------------------------------------------------------
(* Job callbacks.  fail is the set of chats whose send_message raises.     *)

Silent(kind, event_id, chat_id) ==
    [NoFire EXCEPT !.kind = kind, !.event_id = event_id, !.chat_id = chat_id]

\* int(chat_id) succeeds on the chat ids the rows hold
Delivered(chats, fail) == SelectSeq(chats, LAMBDA c : c \notin fail)

StillDueUnlessMissing(S, event_id, t) == HasEvent(S.events, event_id)

\* the check both broadcast callbacks make before anything else:
\* "if not event or classify_status(event) == 'cancelled': return"
StillDue(S, event_id, t) ==
    /\ HasEvent(S.events, event_id)
    /\ classify_status(StoreEvent(S, event_id), t) # "cancelled"

_send_timed_reminder(W, event_id, label, fail, t) ==
    LET S1 == get_event(W.S, event_id, t)
        W1 == [W EXCEPT !.S = S1]
        participants == get_participants(W)
    IN  IF ~StillDue(S1, event_id, t)
        THEN [W |-> W1, out |-> Silent(label, event_id, NoChat)]
        ELSE IF ~CurrentSheetConfigured(S1)
        THEN [W |-> W1,
              out |-> [Silent(label, event_id, NoChat) EXCEPT !.completed = FALSE]]
        ELSE [W |-> [W1 EXCEPT !.S = get_current_worksheet(S1)],
              out |-> [Silent(label, event_id, NoChat) EXCEPT
                          !.roster = participants,
                          !.attempted = participants,
                          !.sent = Delivered(participants, fail)]]

\* position of the first row whose send raises, Len + 1 when none does
FirstFailure(chats, fail) ==
    IF \E i \in DOMAIN chats : chats[i] \in fail
    THEN CHOOSE i \in DOMAIN chats :
            chats[i] \in fail /\ \A j \in 1..(i - 1) : chats[j] \notin fail
    ELSE Len(chats) + 1

\* the loop of _send_feedback_request: add to the set, then send; a raising
\* send leaves the loop and the callback
FeedbackLoop(chats, fail) ==
    LET k == FirstFailure(chats, fail)
    IN  [attempted |-> SubSeq(chats, 1, IF k <= Len(chats) THEN k ELSE Len(chats)),
         sent |-> SubSeq(chats, 1, k - 1),
         completed |-> k > Len(chats)]

SeqRange(q) == {q[i] : i \in DOMAIN q}

_send_feedback_request(W, event_id, fail, t) ==
    LET S1 == get_event(W.S, event_id, t)
        W1 == [W EXCEPT !.S = S1]
        participants == get_participants(W)
        loop == FeedbackLoop(participants, fail)
    IN  IF ~StillDue(S1, event_id, t)
        THEN [W |-> W1, out |-> Silent("feedback", event_id, NoChat)]
        ELSE IF ~CurrentSheetConfigured(S1)
        THEN [W |-> W1,
              out |-> [Silent("feedback", event_id, NoChat) EXCEPT !.completed = FALSE]]
        ELSE [W |-> [W1 EXCEPT
                        !.S = get_current_worksheet(S1),
                        !.awaiting = @ \cup SeqRange(loop.attempted),
                        !.user_jobs = IF loop.completed
                                      THEN cancel_event_user_reminders(@, event_id)
                                      ELSE @],
              out |-> [Silent("feedback", event_id, NoChat) EXCEPT
                          !.roster = participants,
                          !.attempted = loop.attempted,
                          !.sent = loop.sent,
                          !.marked = loop.attempted,
                          !.completed = loop.completed]]

_deliver_user_event_reminder(W, job, fail, t) ==
    LET S1 == get_event(W.S, job.event_id, t)
        W1 == [W EXCEPT !.S = S1]
        kind == IF job.label = "day" THEN "user_day" ELSE "user_hour"
    IN  IF ~HasEvent(S1.events, job.event_id)
           \/ classify_status(StoreEvent(S1, job.event_id), t) \in {"cancelled", "past"}
        THEN [W |-> W1, out |-> Silent(kind, job.event_id, job.chat_id)]
        ELSE [W |-> W1,
              out |-> [Silent(kind, job.event_id, job.chat_id) EXCEPT
                          !.attempted = <<job.chat_id>>,
                          !.sent = Delivered(<<job.chat_id>>, fail)]]

\* register_participant: the chat's row is rewritten when present, appended
\* otherwise
register_participant(rw, sheet_name, chat_id) ==
    IF \E i \in DOMAIN rw : rw[i].sheet = sheet_name /\ rw[i].chat_id = chat_id
    THEN rw
    ELSE Append(rw, [sheet |-> sheet_name, chat_id |-> chat_id])

\* unregister_participant: the chat's row leaves the sheet
unregister_participant(rw, sheet_name, chat_id) ==
    SelectSeq(rw, LAMBDA r : ~(r.sheet = sheet_name /\ r.chat_id = chat_id))

\* cancel_user_event_reminders_for_chat: every job keyed to the pair goes
cancel_user_event_reminders_for_chat(uj, chat_id, event_id) ==
    _cancel_event_jobs(uj, event_id, chat_id)

\* _activate_event_payload: the event a deep link names becomes current
_activate_event_payload(S, payload, t) ==
    IF payload = NoId THEN S
    ELSE LET S1 == get_event(S, payload, t)
         IN  IF ~HasEvent(S1.events, payload) THEN S1
             ELSE IF S1.cur # payload THEN set_current_event(S1, payload, t)
             ELSE S1

\* _participant_status(chat_id).registered: a row on the current worksheet
Registered(rw, S, chat_id) ==
    chat_id \in SeqRange(SheetChats(rw, S.settings.current_event_sheet_name))

\* _enter_user_flow; without a configured sheet _participant_status raises
\* and the handler ends there
_enter_user_flow(W, chat_id, payload, force_registration, t) ==
    LET S1 == _activate_event_payload(W.S, payload, t)
        W1 == [W EXCEPT !.S = S1, !.awaiting = @ \ {chat_id}]
        event_id == S1.settings.current_event_id
    IN  IF ~CurrentSheetConfigured(S1) THEN W1
        ELSE IF ~force_registration \/ ~Registered(W.rows, S1, chat_id)
        THEN [W1 EXCEPT !.S = get_current_worksheet(S1)]
        ELSE [W1 EXCEPT
                !.S = get_current_worksheet(S1),
                !.user_jobs = IF event_id # NoId
                              THEN cancel_user_event_reminders_for_chat(
                                        @, chat_id, event_id)
                              ELSE @,
                !.rows = unregister_participant(
                            @, S1.settings.current_event_sheet_name, chat_id)]

----------------------------------------------------------------------------
(* The reminder engine as a state machine: the admin handlers that create, *)
(* re-date and cancel events, a participant's registration and deep link,  *)
(* schedule_all_reminders itself, and the firing of jobs.                  *)

SchedTitles == {<<"a">>}

SchedStarts == {30, 2 * Hour, 26 * Hour}

Chats == {1, 2}

FailSets == {{}, {2}}

OldTitle == <<"b">>

OldChats == <<2, 3>>

\* the store a restarted bot finds after an event of an earlier day: the
\* event is past, it is still the current one and its roster is filled
OldStore ==
    create_event(Store(<< >>, NoId, _DEFAULT_SETTINGS,
                       <<<<"S", "h", "e", "e", "t", "1">>>>, EmptyIndex),
                 OldTitle, 0, "UTC", "", 0)

OldRows ==
    [i \in DOMAIN OldChats |->
        [sheet |-> OldStore.events[1].sheet_name, chat_id |-> OldChats[i]]]

SchedStep == ops < MaxSchedOps /\ ops' = ops + 1

CurWorld == World(Cur, jobs, user_jobs, rows, awaiting_feedback)

ApplyWorld(W) ==
    /\ Apply(W.S)
    /\ jobs' = W.jobs
    /\ user_jobs' = W.user_jobs
    /\ rows' = W.rows
    /\ awaiting_feedback' = W.awaiting

InitSched ==
    /\ now = 0
    /\ \/ /\ events = << >>
          /\ current_event_id = NoId
          /\ settings = _DEFAULT_SETTINGS
          /\ sheets = <<<<"S", "h", "e", "e", "t", "1">>>>
          /\ index = EmptyIndex
          /\ rows = << >>
          /\ hist = [start |-> << >>, created_id |-> << >>, cancelled |-> {}]
       \/ /\ events = OldStore.events
          /\ current_event_id = OldStore.cur
          /\ settings = OldStore.settings
          /\ sheets = OldStore.sheets
          /\ index = EmptyIndex
          /\ rows = OldRows
          /\ hist = [start |-> <<0>>, created_id |-> <<OldStore.cur>>,
                     cancelled |-> {}]
    /\ last = Did("init", NoId, {})
    /\ ops = 0
    /\ jobs = << >>
    /\ user_jobs = << >>
    /\ awaiting_feedback = {}
    /\ fired = NoFire

\* admin:new:create, reached only while no event is active
AdminCreate ==
    /\ SchedStep
    /\ Len(events) < MaxEvents
    /\ ~has_active_event(Cur, now)
    /\ \E title \in SchedTitles, inst \in SchedStarts :
        LET S1 == create_event(RefreshRead(Cur, now), title, inst, TIMEZONE, "", now)
            W1 == schedule_all_reminders([CurWorld EXCEPT !.S = S1], now)
            W2 == [W1 EXCEPT !.S = events_bootstrap(W1.S, now)]
        IN  /\ ApplyWorld(W2)
            /\ last' = Did("admin_create", S1.cur, {})
            /\ hist' = [hist EXCEPT !.start = Append(@, inst),
                                    !.created_id = Append(@, S1.cur)]
    /\ fired' = NoFire
    /\ UNCHANGED now

\* ev_edit_dt: the new start of an event that was active when its edit began
AdminEditDt ==
    /\ SchedStep
    /\ \E id \in EventIds, inst \in SchedStarts :
        /\ classify_status(EventAt(id), now) = "active"
        /\ LET ev == EventAt(id)
               tz == IF ev.timezone # NoZone THEN ev.timezone ELSE TIMEZONE
               fields == [vals |-> [datetime_local |-> IsoFormat(inst, ZoneOff(tz)),
                                    timezone |-> tz],
                          nones |-> {}]
               S1 == update_event(get_event(Cur, id, now), id, fields, now)
               W1 == IF S1.cur = id
                     THEN schedule_all_reminders([CurWorld EXCEPT !.S = S1], now)
                     ELSE [CurWorld EXCEPT !.S = S1]
               W2 == [W1 EXCEPT !.S = get_event(W1.S, id, now)]
           IN  /\ ApplyWorld(W2)
               /\ last' = [Did("admin_edit_dt", id, {"datetime_local", "timezone"})
                               EXCEPT !.pre = IF HasJobs(jobs, id)
                                              THEN "planned" ELSE "unplanned"]
               /\ hist' = [hist EXCEPT !.start[_find_event_index(events, id)] = inst]
    /\ fired' = NoFire
    /\ UNCHANGED now

\* cancel_yes: the store is updated and the list shown; no job is touched
AdminCancelYes ==
    /\ SchedStep
    /\ \E id \in EventIds :
        /\ Apply(cancel_yes(Cur, id, now))
        /\ last' = [Did("admin_cancel", id, {}) EXCEPT
                        !.pre = classify_status(EventAt(id), now)]
        /\ hist' = IF classify_status(EventAt(id), now) = "active"
                   THEN [hist EXCEPT !.cancelled =
                            @ \cup {_find_event_index(events, id)}]
                   ELSE hist
    /\ fired' = NoFire
    /\ UNCHANGED <<now, jobs, user_jobs, rows, awaiting_feedback>>

\* what a session reset removed
Removed(W) ==
    (IF W.user_jobs # user_jobs THEN {"jobs"} ELSE {})
        \cup (IF W.rows # rows THEN {"row"} ELSE {})

\* /start with the deep link of an event: the event becomes current and the
\* participant's session starts afresh
DeepLink ==
    /\ SchedStep
    /\ \E id \in EventIds, chat_id \in Chats :
        LET W1 == _enter_user_flow(CurWorld, chat_id, id, TRUE, now)
        IN  /\ ApplyWorld(W1)
            /\ last' = [Did("deep_link", id, Removed(W1)) EXCEPT
                            !.pre = Str(chat_id)[1]]
    /\ fired' = NoFire
    /\ UNCHANGED <<now, hist>>

\* /reset and the restart button: the participant's session starts afresh
ResetSession ==
    /\ SchedStep
    /\ \E chat_id \in Chats :
        LET W1 == _enter_user_flow(CurWorld, chat_id, NoId, TRUE, now)
        IN  /\ ApplyWorld(W1)
            /\ last' = [Did("reset", settings.current_event_id, Removed(W1)) EXCEPT
                            !.pre = Str(chat_id)[1]]
    /\ fired' = NoFire
    /\ UNCHANGED <<now, hist>>

\* the registration callback: the row, then the chat's personal reminders
Register ==
    /\ SchedStep
    /\ CurrentSheetConfigured(Cur)
    /\ \E chat_id \in Chats :
        LET S1 == get_current_worksheet(Cur)
            W1 == [CurWorld EXCEPT
                      !.S = S1,
                      !.rows = register_participant(@,
                                    settings.current_event_sheet_name, chat_id)]
            W2 == IF settings.current_event_id # NoId
                  THEN plan_user_event_reminders(W1, chat_id,
                                                 settings.current_event_id, now)
                  ELSE W1
        IN  /\ ApplyWorld(W2)
            /\ last' = [Did("register", settings.current_event_id, {}) EXCEPT
                            !.pre = Str(chat_id)[1]]
    /\ fired' = NoFire
    /\ UNCHANGED <<now, hist>>

\* schedule_all_reminders called on its own
ScheduleAllReminders ==
    /\ SchedStep
    /\ ApplyWorld(schedule_all_reminders(CurWorld, now))
    /\ last' = [Did("plan", settings.current_event_id, {}) EXCEPT
                    !.pre = IF HasJobs(jobs, settings.current_event_id)
                            THEN "planned" ELSE "unplanned"]
    /\ fired' = NoFire
    /\ UNCHANGED <<now, hist>>

RunTimes ==
    {jobs[i].run_time : i \in DOMAIN jobs}
        \cup {user_jobs[i].run_time : i \in DOMAIN user_jobs}

IsNextRunTime(rt) == \A other \in RunTimes : rt <= other

RemoveAt(q, i) == SubSeq(q, 1, i - 1) \o SubSeq(q, i + 1, Len(q))

\* a job of the process-wide scheduler comes due: it leaves the registry
\* and its coroutine runs
FireJobBody ==
    \E i \in DOMAIN jobs, fail \in FailSets :
        /\ IsNextRunTime(jobs[i].run_time)
        /\ LET t == IF jobs[i].run_time > now THEN jobs[i].run_time ELSE now
               W0 == [CurWorld EXCEPT !.jobs = RemoveAt(@, i)]
               R == IF jobs[i].func = "_send_timed_reminder"
                    THEN _send_timed_reminder(W0, jobs[i].event_id,
                                              jobs[i].label, fail, t)
                    ELSE _send_feedback_request(W0, jobs[i].event_id, fail, t)
           IN  /\ ApplyWorld(R.W)
               /\ fired' = R.out
               /\ now' = t
               /\ last' = Did("fire", jobs[i].event_id, {})

FireJob ==
    /\ SchedStep
    /\ FireJobBody
    /\ UNCHANGED hist

\* a job of the application's job queue comes due
FireUserJobBody ==
    \E i \in DOMAIN user_jobs, fail \in FailSets :
        /\ IsNextRunTime(user_jobs[i].run_time)
        /\ LET t == IF user_jobs[i].run_time > now THEN user_jobs[i].run_time ELSE now
               W0 == [CurWorld EXCEPT !.user_jobs = RemoveAt(@, i)]
               R == _deliver_user_event_reminder(W0, user_jobs[i], fail, t)
           IN  /\ ApplyWorld(R.W)
               /\ fired' = R.out
               /\ now' = t
               /\ last' = Did("fire_user", user_jobs[i].event_id, {})

FireUserJob ==
    /\ SchedStep
    /\ FireUserJobBody
    /\ UNCHANGED hist

\* time passes while no job is due
Advance ==
    /\ SchedStep
    /\ \E d \in TickSteps :
        /\ now + d <= MaxTicks * Hour
        /\ \A rt \in RunTimes : now + d < rt
        /\ now' = now + d
    /\ last' = Did("advance", NoId, {})
    /\ fired' = NoFire
    /\ UNCHANGED <<events, current_event_id, settings, sheets, index, hist,
                   jobs, user_jobs, rows, awaiting_feedback>>

NextSched ==
    \/ AdminCreate
    \/ AdminEditDt
    \/ AdminCancelYes
    \/ DeepLink
    \/ ResetSession
    \/ Register
    \/ ScheduleAllReminders
    \/ FireJob
    \/ FireUserJob
    \/ Advance

SpecSched == InitSched /\ [][NextSched]_vars

\* the roster is a shared spreadsheet: a row is deleted in the sheet itself,
\* without the bot
RowDeleted ==
    /\ SchedStep
    /\ \E i \in DOMAIN rows :
        /\ rows' = RemoveAt(rows, i)
        /\ last' = [Did("row_deleted", NoId, {}) EXCEPT
                        !.pre = Str(rows[i].chat_id)[1]]
    /\ fired' = NoFire
    /\ UNCHANGED <<now, events, current_event_id, settings, sheets, index, hist,
                   jobs, user_jobs, awaiting_feedback>>

NextRoster ==
    \/ NextSched
    \/ RowDeleted

\* the reminder engine next to a roster that is also edited by hand
SpecRoster == InitSched /\ [][NextRoster]_vars

\* the most rows the sheets hold together
MaxRows == 3

\* a row of a roster sheet is entered once more by hand in the spreadsheet
RowCopied ==
    /\ SchedStep
    /\ Len(rows) < MaxRows
    /\ \E i \in DOMAIN rows :
        /\ rows' = Append(rows, rows[i])
        /\ last' = [Did("row_copied", NoId, {}) EXCEPT
                        !.pre = Str(rows[i].chat_id)[1]]
    /\ fired' = NoFire
    /\ UNCHANGED <<now, events, current_event_id, settings, sheets, index, hist,
                   jobs, user_jobs, awaiting_feedback>>

NextCopies ==
    \/ NextSched
    \/ RowCopied

\* the reminder engine next to a roster in which rows are entered twice
SpecCopies == InitSched /\ [][NextCopies]_vars

\* the most handler runs next to the firings of a whole plan
MaxLiveOps == 2

\* the scheduler at work over the whole life of a plan: the handlers are
\* counted, the firings are not; log keeps the firings in order
InitLive ==
    /\ now = 0
    /\ events = << >>
    /\ current_event_id = NoId
    /\ settings = _DEFAULT_SETTINGS
    /\ sheets = <<<<"S", "h", "e", "e", "t", "1">>>>
    /\ index = EmptyIndex
    /\ rows = << >>
    /\ hist = [start |-> << >>, created_id |-> << >>, cancelled |-> {},
               log |-> << >>, late_plans |-> {}]
    /\ last = Did("init", NoId, {})
    /\ ops = 0
    /\ jobs = << >>
    /\ user_jobs = << >>
    /\ awaiting_feedback = {}
    /\ fired = NoFire

Logged(out) == [event_id |-> out.event_id, kind |-> out.kind, sent |-> out.sent]

LiveFireJob ==
    /\ FireJobBody
    /\ hist' = [hist EXCEPT !.log = Append(@, Logged(fired'))]
    /\ UNCHANGED ops

LiveFireUserJob ==
    /\ FireUserJobBody
    /\ hist' = [hist EXCEPT !.log = Append(@, Logged(fired'))]
    /\ UNCHANGED ops

\* schedule_all_reminders called again; late_plans keeps the events for
\* which it ran when the time of their day_before job had come
LivePlan ==
    /\ SchedStep
    /\ ApplyWorld(schedule_all_reminders(CurWorld, now))
    /\ last' = Did("plan", settings.current_event_id, {})
    /\ fired' = NoFire
    /\ hist' = IF /\ settings.current_event_id # NoId
                  /\ settings.current_event_datetime # EmptyDt
                  /\ SettingsInstant(settings) - Day <= now
               THEN [hist EXCEPT !.late_plans = @ \cup {settings.current_event_id}]
               ELSE hist
    /\ UNCHANGED now

\* a handler may still run
LiveSlot == ops < MaxLiveOps

NextLive ==
    \/ LiveSlot /\ AdminCreate
    \/ LiveSlot /\ AdminCancelYes
    \/ LiveSlot /\ Register
    \/ LiveSlot /\ DeepLink
    \/ LiveSlot /\ LivePlan
    \/ LiveSlot /\ Advance
    \/ LiveFireJob
    \/ LiveFireUserJob

\* a due job is run: the scheduler and the job queue keep running
SpecLive ==
    /\ InitLive
    /\ [][NextLive]_vars
    /\ WF_vars(LiveFireJob)
    /\ WF_vars(LiveFireUserJob)

\* A broadcast callback step by step: it checks the event and reads the
\* roster once, then awaits one send_message per row; other handlers run
\* while a send is awaited.  fanout keeps the callback's local state.
NoFanout == [event_id |-> NoId, kind |-> "none", roster |-> << >>, next |-> 1]

FanoutStart0 ==
    create_event(Store(<< >>, NoId, _DEFAULT_SETTINGS,
                       <<<<"S", "h", "e", "e", "t", "1">>>>, EmptyIndex),
                 <<"a">>, 2 * Hour, TIMEZONE, "", 0)

\* the bot after a start of the process: one active event whose roster
\* lists both chats, its jobs planned by _post_init
FanoutWorld0 ==
    schedule_all_reminders(
        World(FanoutStart0, << >>, << >>,
              <<[sheet |-> FanoutStart0.events[1].sheet_name, chat_id |-> 1],
                [sheet |-> FanoutStart0.events[1].sheet_name, chat_id |-> 2]>>,
              {}), 0)

InitFanout ==
    /\ now = 0
    /\ events = FanoutWorld0.S.events
    /\ current_event_id = FanoutWorld0.S.cur
    /\ settings = FanoutWorld0.S.settings
    /\ sheets = FanoutWorld0.S.sheets
    /\ index = FanoutWorld0.S.index
    /\ rows = FanoutWorld0.rows
    /\ jobs = FanoutWorld0.jobs
    /\ user_jobs = FanoutWorld0.user_jobs
    /\ awaiting_feedback = {}
    /\ hist = [start |-> <<2 * Hour>>, created_id |-> <<FanoutWorld0.S.cur>>,
               cancelled |-> {}, fanout |-> NoFanout]
    /\ last = Did("init", NoId, {})
    /\ ops = 0
    /\ fired = NoFire

\* one pass of the callback's loop, up to the await of send_message for
\* the row at f.next; ok is whether that send goes through
SendNext(f, ok, uj, aw) ==
    LET chat_id == f.roster[f.next]
        feedback == f.kind = "feedback"
        ends == f.next = Len(f.roster) \/ (feedback /\ ~ok)
    IN  [fanout |-> IF ends THEN NoFanout ELSE [f EXCEPT !.next = @ + 1],
         awaiting |-> IF feedback THEN aw \cup {chat_id} ELSE aw,
         user_jobs |-> IF feedback /\ ok /\ f.next = Len(f.roster)
                       THEN cancel_event_user_reminders(uj, f.event_id)
                       ELSE uj,
         last |-> [Did("send", f.event_id, IF ok THEN {"sent"} ELSE {}) EXCEPT
                      !.pre = Str(chat_id)[1]]]

\* a broadcast job comes due: its callback checks the event, reads the
\* roster and runs up to the await of its first send
FanoutStart ==
    /\ SchedStep
    /\ hist.fanout = NoFanout
    /\ \E i \in DOMAIN jobs, ok \in BOOLEAN :
        /\ \A k \in DOMAIN jobs : jobs[i].run_time <= jobs[k].run_time
        /\ LET t == IF jobs[i].run_time > now THEN jobs[i].run_time ELSE now
               S1 == get_event(Cur, jobs[i].event_id, t)
               participants == get_participants(CurWorld)
               sends == /\ StillDue(S1, jobs[i].event_id, t)
                        /\ CurrentSheetConfigured(S1)
                        /\ participants # << >>
               R == SendNext([event_id |-> jobs[i].event_id, kind |-> jobs[i].label,
                              roster |-> participants, next |-> 1],
                             ok, user_jobs, awaiting_feedback)
           IN  /\ Apply(IF StillDue(S1, jobs[i].event_id, t)
                            /\ CurrentSheetConfigured(S1)
                        THEN get_current_worksheet(S1) ELSE S1)
               /\ jobs' = RemoveAt(jobs, i)
               /\ now' = t
               /\ hist' = [hist EXCEPT !.fanout = IF sends THEN R.fanout ELSE NoFanout]
               /\ last' = IF sends THEN R.last ELSE Did("fire", jobs[i].event_id, {})
               /\ awaiting_feedback' = IF sends THEN R.awaiting ELSE awaiting_feedback
               /\ user_jobs' = IF sends THEN R.user_jobs ELSE user_jobs
    /\ fired' = NoFire
    /\ UNCHANGED rows

\* the callback resumes after a send and runs up to the await of the next
FanoutSend ==
    /\ SchedStep
    /\ hist.fanout # NoFanout
    /\ \E ok \in BOOLEAN :
        LET R == SendNext(hist.fanout, ok, user_jobs, awaiting_feedback)
        IN  /\ awaiting_feedback' = R.awaiting
            /\ user_jobs' = R.user_jobs
            /\ hist' = [hist EXCEPT !.fanout = R.fanout]
            /\ last' = R.last
    /\ fired' = NoFire
    /\ UNCHANGED <<now, events, current_event_id, settings, sheets, index, jobs,
                   rows>>

NextFanout ==
    \/ FanoutStart
    \/ FanoutSend
    \/ AdminCancelYes
    \/ ResetSession
    \/ Register

\* a broadcast in progress next to the admin's and the participants' handlers
SpecFanout == InitFanout /\ [][NextFanout]_vars

\* schedule_all_reminders reaches replan_event_user_reminders
ReachesReplan(W, t) ==
    LET st == W.S.settings
        S1 == get_event(W.S, st.current_event_id, t)
    IN  /\ st.current_event_datetime # EmptyDt
        /\ st.current_event_id # NoId
        /\ ~(/\ HasEvent(S1.events, st.current_event_id)
             /\ classify_status(StoreEvent(S1, st.current_event_id), t)
                    = "cancelled")
        /\ SettingsInstant(st) > t

\* replan_event_user_reminders reaches database.list_chat_ids
ReachesRoster(W, t) ==
    /\ ReachesReplan(W, t)
    /\ Plannable(get_event(W.S, W.S.settings.current_event_id, t),
                 W.S.settings.current_event_id, t)

\* schedule_all_reminders while every call to the spreadsheet raises: the
\* world at the moment the call returns or the exception leaves it
ScheduleAllRemindersBackendDown(W, t) ==
    LET event_id == W.S.settings.current_event_id
    IN  IF ReachesRoster(W, t)
        THEN [W EXCEPT
                !.S = get_event(W.S, event_id, t),
                !.jobs = PlannedJobs(W.jobs, event_id,
                                     SettingsInstant(W.S.settings), t),
                !.user_jobs = _cancel_event_jobs(W.user_jobs, event_id, NoChat)]
        ELSE schedule_all_reminders(W, t)

\* schedule_all_reminders is called, by _post_init or by an admin handler,
\* while the spreadsheet cannot be reached
PlanOutage ==
    /\ SchedStep
    /\ ApplyWorld(ScheduleAllRemindersBackendDown(CurWorld, now))
    /\ last' = [Did("plan_outage", settings.current_event_id, {}) EXCEPT
                    !.pre = IF ReachesRoster(CurWorld, now)
                            THEN "raised" ELSE "returned"]
    /\ fired' = NoFire
    /\ UNCHANGED <<now, hist>>

\* the calls of create_event that go to the spreadsheet
CreateFailPoints == {"create_event_sheet", "set_current_event"}

\* create_event when the spreadsheet call at the given point raises: what
\* the files and the spreadsheet hold when the exception leaves the call
CreateEventBackendDown(S, title, inst, timezone, zoom_url, t, point) ==
    IF point = "create_event_sheet"
    THEN [S EXCEPT !.events = _auto_update_status(S.events, t)]
    ELSE [create_event(S, title, inst, timezone, zoom_url, t) EXCEPT
            !.settings = S.settings,
            !.index = S.index]

\* admin:new:create while a call to the spreadsheet fails: the exception
\* leaves the handler, nothing is planned
AdminCreateOutage ==
    /\ SchedStep
    /\ Len(events) < MaxEvents
    /\ ~has_active_event(Cur, now)
    /\ \E title \in SchedTitles, inst \in SchedStarts, point \in CreateFailPoints :
        LET S1 == CreateEventBackendDown(RefreshRead(Cur, now), title, inst,
                                         TIMEZONE, "", now, point)
        IN  /\ Apply(S1)
            /\ last' = [Did("create_outage", NoId, {}) EXCEPT !.pre = point]
            /\ hist' = IF Len(S1.events) > Len(events)
                       THEN [hist EXCEPT !.start = Append(@, inst),
                                         !.created_id = Append(@, S1.cur)]
                       ELSE hist
    /\ fired' = NoFire
    /\ UNCHANGED <<now, jobs, user_jobs, rows, awaiting_feedback>>

NextOutage ==
    \/ NextSched
    \/ PlanOutage
    \/ AdminCreateOutage

\* the reminder engine and the admin's create while the spreadsheet is
\* at times out of reach
SpecOutage == InitSched /\ [][NextOutage]_vars

----------------------------------------------------------------------------
(* The event index as a state machine: the EventStore mutations, the page  *)
(* read the admin list makes, the passing of minutes and a restart of the  *)
(* process, which empties the cache and keeps the index file.              *)

IndexTitles == {<<"a">>, <<"b">>}

IndexStarts == {2, Hour}

IndexTickSteps == {1, 4}

Pages == {-1, 0, 1, 2, 3}

PAGE_SIZE == 5

PageSizes == {2, PAGE_SIZE}

NoPage ==
    [requested |-> 0, size |-> 0, was_dirty |-> FALSE, rebuilt |-> FALSE,
     items |-> << >>,
     total_pages |-> 0, total |-> 0, page |-> 0]

\* dirty: the store was mutated after the last page read
IndexDid(op, id, dirty, page) ==
    [op |-> op, id |-> id, keys |-> {}, nones |-> {}, pre |-> "",
     dirty |-> dirty, page |-> page]

IndexStep == ops < MaxIndexOps /\ ops' = ops + 1

InitIndex ==
    /\ now = 0
    /\ events = << >>
    /\ current_event_id = NoId
    /\ settings = _DEFAULT_SETTINGS
    /\ sheets \in InitialSheets
    /\ index = EmptyIndex
    /\ last = IndexDid("init", NoId, FALSE, NoPage)
    /\ hist = [start |-> << >>, created_id |-> << >>, cancelled |-> {}]
    /\ ops = 0
    /\ jobs = << >>
    /\ user_jobs = << >>
    /\ rows = << >>
    /\ awaiting_feedback = {}
    /\ fired = NoFire

IndexTick ==
    /\ IndexStep
    /\ \E d \in IndexTickSteps :
        /\ now + d <= MaxIndexMinutes
        /\ now' = now + d
    /\ last' = IndexDid("tick", NoId, last.dirty, NoPage)
    /\ UNCHANGED <<events, current_event_id, settings, sheets, index, hist>>
    /\ UNCHANGED schedVars

IndexCreate ==
    /\ IndexStep
    /\ Len(events) < MaxEvents
    /\ \E title \in IndexTitles, inst \in IndexStarts :
        /\ Apply(create_event(Cur, title, inst, TIMEZONE, "", now))
        /\ last' = IndexDid("create", events'[Len(events')].event_id, TRUE, NoPage)
        /\ hist' = [hist EXCEPT
                        !.start = Append(@, inst),
                        !.created_id = Append(@, events'[Len(events')].event_id)]
    /\ UNCHANGED now
    /\ UNCHANGED schedVars

IndexUpdate ==
    /\ IndexStep
    /\ \E id \in EventIds, title \in IndexTitles :
        /\ Apply(update_event(Cur, id, [vals |-> [title |-> title], nones |-> {}],
                              now))
        /\ last' = IndexDid("update", id, TRUE, NoPage)
    /\ UNCHANGED <<now, hist>>
    /\ UNCHANGED schedVars

IndexCancel ==
    /\ IndexStep
    /\ \E id \in EventIds :
        /\ Apply(update_event(Cur, id, CancelFields, now))
        /\ last' = IndexDid("cancel", id, TRUE, NoPage)
    /\ UNCHANGED <<now, hist>>
    /\ UNCHANGED schedVars

IndexSetCurrent ==
    /\ IndexStep
    /\ \E id \in EventIds :
        /\ Apply(set_current_event(Cur, id, now))
        /\ last' = IndexDid("set_current", id, TRUE, NoPage)
    /\ UNCHANGED <<now, hist>>
    /\ UNCHANGED schedVars

\* the page read of the admin list: events_refresh_if_stale, then
\* get_events_page
PageRead ==
    /\ IndexStep
    /\ \E page \in Pages, size \in PageSizes :
        LET S1 == events_refresh_if_stale(Cur, now)
        IN  /\ Apply(get_events_page(S1, now))
            /\ last' = IndexDid("page_read", NoId, FALSE,
                            [requested |-> page, size |-> size,
                             was_dirty |-> last.dirty,
                             rebuilt |-> IsStale(_get_index_state(index), now)]
                                @@ PageOf(S1, page, size, now))
    /\ UNCHANGED <<now, hist>>
    /\ UNCHANGED schedVars

\* the process starts again: the module globals, bot_data and the job
\* registries are new, the files are kept, and _post_init plans the
\* reminders
Restart ==
    /\ IndexStep
    /\ LET S0 == [Cur EXCEPT !.index = [EmptyIndex EXCEPT !.file = index.file]]
       IN  ApplyWorld(schedule_all_reminders(World(S0, << >>, << >>, rows, {}), now))
    /\ last' = IndexDid("restart", NoId, last.dirty, NoPage)
    /\ fired' = NoFire
    /\ UNCHANGED <<now, hist>>

NextIndex ==
    \/ IndexTick
    \/ IndexCreate
    \/ IndexUpdate
    \/ IndexCancel
    \/ IndexSetCurrent
    \/ PageRead
    \/ Restart

SpecIndex == InitIndex /\ [][NextIndex]_vars

----------------------------------------------------------------------------
(* Properties *)

TimeDerived(i) == IF now >= hist.start[i] THEN "past" ELSE "active"

\* C1: classify of every stored event is 'cancelled' iff the event was
\* explicitly cancelled, otherwise 'past' iff now >= the start instant it
\* was given, otherwise 'active'; replacing the persisted active/past value
\* does not change the result.
C1_ClassifyFollowsStart ==
    \A i \in DOMAIN events :
        /\ classify_status(events[i], now) =
              IF i \in hist.cancelled THEN "cancelled" ELSE TimeDerived(i)
        /\ events[i].status # "cancelled" =>
              \A st \in {"active", "past"} :
                  classify_status([events[i] EXCEPT !.status = st], now)
                      = classify_status(events[i], now)

\* an event stored in the Moscow zone whose start has come while its
\* persisted status still says active
C1_Witness ==
    \E i \in DOMAIN events :
        /\ events[i].timezone = TIMEZONE
        /\ events[i].status = "active"
        /\ now >= hist.start[i]
        /\ classify_status(events[i], now) = "past"

TimeDrivenOps ==
    {"tick", "get", "current", "list", "get_page", "bootstrap", "create",
     "set_current"}

\* C2: a persisted status 'cancelled' is left 'cancelled' by every
\* time-driven step: the clock, the refreshing reads (get, current, list,
\* get_page, index rebuild), create and set-current.
C2_CancelledStays ==
    [][\A i \in DOMAIN events :
          (events[i].status = "cancelled" /\ last'.op \in TimeDrivenOps)
              => events'[i].status = "cancelled"]_vars

\* a cancelled event whose start has passed, just after a refreshing read
C2_Witness ==
    \E i \in DOMAIN events :
        /\ events[i].status = "cancelled"
        /\ now >= hist.start[i]
        /\ last.op \in {"get", "current", "list", "get_page"}

\* C3: right after create at most one event is active, by persisted status
\* and by classify, and every earlier non-cancelled event is 'past'.
C3_AtMostOneActiveAfterCreate ==
    last.op = "create" =>
        /\ Cardinality({i \in DOMAIN events : events[i].status = "active"}) <= 1
        /\ Cardinality({i \in DOMAIN events :
                            classify_status(events[i], now) = "active"}) <= 1
        /\ \A i \in 1..(Len(events) - 1) :
              events[i].status # "cancelled" => events[i].status = "past"

\* C4 as stated: right after create the new event is persisted 'active' and
\* the pointer names it.
C4_CreatedActiveAndCurrent ==
    last.op = "create" =>
        /\ events[Len(events)].status = "active"
        /\ current_event_id = events[Len(events)].event_id

\* C4 amended: right after create the new event is persisted with the
\* status its start gives at that moment (active when the start is after
\* now, past otherwise) and the pointer names it, whatever it named before.
C4_CreatedCurrent ==
    last.op = "create" =>
        /\ events[Len(events)].event_id = last.id
        /\ events[Len(events)].status = TimeDerived(Len(events))
        /\ current_event_id = last.id
        /\ current_event_id # NoId

\* a second event just created active while the pointer named the first
C4_Witness ==
    /\ last.op = "create"
    /\ Len(events) = 2
    /\ events[2].status = "active"
    /\ events[1].event_id # events[2].event_id

\* C5: the event ids of the store are pairwise distinct.
C5_IdsDistinct ==
    \A i, j \in DOMAIN events :
        i # j => events[i].event_id # events[j].event_id

\* two creates with the same slug and date: the second id carries a suffix
C5_Witness ==
    /\ Len(events) >= 2
    /\ events[2].event_id = events[1].event_id \o <<"-", "2">>

\* C6: every event keeps the id it was created with (an update naming
\* event_id is rejected).
C6_EventIdImmutable ==
    \A i \in DOMAIN events : events[i].event_id = hist.created_id[i]

\* C7: an update never takes an event out of 'cancelled'.
C7_UncancelRejected ==
    [][\A i \in DOMAIN events :
          (events[i].status = "cancelled" /\ last'.op = "update")
              => events'[i].status = "cancelled"]_vars

OtherEventsKept(idx) ==
    \A j \in DOMAIN events :
        j # idx =>
            /\ events'[j].event_id = events[j].event_id
            /\ events'[j].title = events[j].title
            /\ events'[j].datetime_local = events[j].datetime_local
            /\ events'[j].timezone = events[j].timezone
            /\ events'[j].zoom_url = events[j].zoom_url
            /\ events'[j].sheet_name = events[j].sheet_name

\* C8 as stated: update changes on the named event only the given non-None
\* fields and updated_at, and leaves the other events' title, start, links
\* and roster reference and the pointer alone.
C8_UpdateFrame ==
    [][last'.op = "update" =>
          LET idx == _find_event_index(events, last'.id)
          IN  /\ \A k \in DOMAIN events[idx] \ (last'.keys \cup {"updated_at"}) :
                    events'[idx][k] = events[idx][k]
              /\ OtherEventsKept(idx)
              /\ current_event_id' = current_event_id]_vars

\* C8 amended: as stated, except that when the named event is the current
\* event its persisted status may also change, and then only to the status
\* its start gives at that moment.
C8_UpdateFrameButStatus ==
    [][last'.op = "update" =>
          LET idx == _find_event_index(events, last'.id)
              free == last'.keys \cup {"updated_at"}
                         \cup (IF current_event_id = last'.id
                               THEN {"status"} ELSE {})
          IN  /\ \A k \in DOMAIN events[idx] \ free :
                    events'[idx][k] = events[idx][k]
              /\ events'[idx].updated_at = now
              /\ ("status" \notin last'.keys
                    /\ events'[idx].status # events[idx].status)
                    => events'[idx].status =
                          IF now' >= hist'.start[idx] THEN "past" ELSE "active"
              /\ OtherEventsKept(idx)
              /\ current_event_id' = current_event_id]_vars

\* an update that gave title as None, with a second event in the store
C8_Witness ==
    /\ last.op = "update"
    /\ "title" \in last.nones
    /\ Len(events) = 2
    /\ EventAt(last.id).zoom_url = "z"
    /\ EventAt(last.id).title # NoId

CancelTwiceIsOnce ==
    \A id \in EventIds \cup {UnknownId} :
        cancel_yes(cancel_yes(Cur, id, now), id, now) = cancel_yes(Cur, id, now)

\* C9 as stated: cancel leaves the event 'cancelled' whatever its status
\* was, and cancelling twice gives the state of cancelling once.
C9_CancelAlways ==
    /\ (last.op = "cancel" /\ HasEvent(events, last.id))
          => EventAt(last.id).status = "cancelled"
    /\ CancelTwiceIsOnce

\* C9 amended: cancel leaves the event 'cancelled' when it classified as
\* active (or was already cancelled); a past event is refused and stays
\* 'past'; cancelling twice gives the state of cancelling once.
C9_CancelWhenActive ==
    /\ (last.op = "cancel" /\ HasEvent(events, last.id))
          => EventAt(last.id).status =
                IF last.pre \in {"active", "cancelled"} THEN "cancelled"
                ELSE "past"
    /\ CancelTwiceIsOnce

\* an active event has just been cancelled
C9_Witness ==
    /\ last.op = "cancel"
    /\ last.pre = "active"
    /\ HasEvent(events, last.id)
    /\ EventAt(last.id).status = "cancelled"

\* C10: cancelling the current event leaves the pointer None; cancelling
\* another event leaves the pointer as it was.
C10_PointerAfterCancel ==
    [][(last'.op = "cancel" /\ last'.pre = "active") =>
          IF current_event_id = last'.id
          THEN current_event_id' = NoId
          ELSE current_event_id' = current_event_id]_vars

ActiveIndexes == {i \in DOMAIN events : classify_status(events[i], now) = "active"}

PointerActive ==
    /\ current_event_id # NoId
    /\ HasEvent(events, current_event_id)
    /\ classify_status(EventAt(current_event_id), now) = "active"

----------------------------------------------------------------------------
(* Properties of the reminder engine *)

\* the last operation ran schedule_all_reminders for the mirrored event
PlanRan ==
    \/ last.op \in {"plan", "admin_create"}
    \/ last.op = "admin_edit_dt" /\ last.id = current_event_id

PlannedId == settings.current_event_id

EventJobs(event_id) ==
    {i \in DOMAIN jobs : StartsWith(jobs[i].id, EventPrefix(event_id))}

EventUserJobs(event_id) ==
    {i \in DOMAIN user_jobs :
        StartsWith(user_jobs[i].name, _user_job_prefix(event_id))}

FourKeys(event_id) ==
    {JobId(event_id, k) : k \in {"day_before", "hour_before", "start", "feedback"}}

StartOf(event_id) == hist.start[_find_event_index(events, event_id)]

\* C12: planning again right after a plan leaves the same global jobs, no
\* job id occurs twice, and with all four fire times ahead the event's job
\* ids are exactly day_before, hour_before, start and feedback.
C12_ReplanSameKeys ==
    PlanRan =>
        LET again == schedule_all_reminders(CurWorld, now)
        IN  /\ SeqRange(again.jobs) = SeqRange(jobs)
            /\ Len(again.jobs) = Len(jobs)
            /\ \A i, j \in DOMAIN jobs : jobs[i].id = jobs[j].id => i = j
            /\ (/\ HasEvent(events, PlannedId)
                /\ classify_status(EventAt(PlannedId), now) = "active"
                /\ StartOf(PlannedId) - Day > now)
               => {jobs[i].id : i \in EventJobs(PlannedId)} = FourKeys(PlannedId)

\* a plan of an event that already had jobs left its four jobs
C12_Witness ==
    /\ last.op = "plan"
    /\ last.pre = "planned"
    /\ HasEvent(events, PlannedId)
    /\ Cardinality(EventJobs(PlannedId)) = 4

\* C13: after a plan of an event that is cancelled or whose start is not
\* after now, no global job is keyed to the event.
C13_NoJobsForDeadEvent ==
    (/\ PlanRan
     /\ HasEvent(events, PlannedId)
     /\ \/ classify_status(EventAt(PlannedId), now) = "cancelled"
        \/ StartOf(PlannedId) <= now)
    => EventJobs(PlannedId) = {}

\* the plan found jobs of an earlier plan and removed them
C13_Witness ==
    /\ PlanRan
    /\ last.op \in {"plan", "admin_edit_dt"}
    /\ last.pre = "planned"
    /\ HasEvent(events, PlannedId)
    /\ \/ classify_status(EventAt(PlannedId), now) = "cancelled"
       \/ StartOf(PlannedId) <= now
    /\ EventJobs(PlannedId) = {}

KindOffsets ==
    {<<"day_before", 0 - Day>>, <<"hour_before", 0 - Hour>>,
     <<"start", 0>>, <<"feedback", Day>>}

\* C14: after a plan of an active event that starts after now, its global
\* jobs are exactly those of day_before (start - 24h), hour_before
\* (start - 1h), start and feedback (start + 24h) that fire after now.
C14_JobsAtOffsets ==
    (/\ PlanRan
     /\ HasEvent(events, PlannedId)
     /\ classify_status(EventAt(PlannedId), now) = "active"
     /\ StartOf(PlannedId) > now)
    => /\ {<<jobs[i].id, jobs[i].run_time>> : i \in EventJobs(PlannedId)}
            = {<<JobId(PlannedId, ko[1]), StartOf(PlannedId) + ko[2]>> :
                    ko \in {x \in KindOffsets : StartOf(PlannedId) + x[2] > now}}
       /\ Cardinality(EventJobs(PlannedId))
            = Cardinality({x \in KindOffsets : StartOf(PlannedId) + x[2] > now})

\* the start is less than an hour away: only start and feedback are planned
C14_Witness ==
    /\ PlanRan
    /\ HasEvent(events, PlannedId)
    /\ classify_status(EventAt(PlannedId), now) = "active"
    /\ StartOf(PlannedId) > now
    /\ StartOf(PlannedId) - Hour <= now
    /\ {jobs[i].id : i \in EventJobs(PlannedId)}
            = {JobId(PlannedId, "start"), JobId(PlannedId, "feedback")}

KindOffset(kind) ==
    CASE kind = "day" -> 0 - Day
      [] kind = "hour" -> 0 - Hour
      [] kind = "start" -> 0
      [] OTHER -> Day

\* C15: after the admin's date edit of an event, every job of the event,
\* global or personal, fires at the new start plus the offset of its kind,
\* whether or not the event is the current one.
C15_EditReplansJobs ==
    last.op = "admin_edit_dt" =>
        /\ \A i \in EventJobs(last.id) :
                jobs[i].run_time = StartOf(last.id) + KindOffset(jobs[i].label)
        /\ \A i \in EventUserJobs(last.id) :
                user_jobs[i].run_time
                    = StartOf(last.id) + KindOffset(user_jobs[i].label)

\* C16: after the admin cancel action has cancelled an event, neither
\* registry holds a job keyed to it.
C16_CancelRemovesJobs ==
    (last.op = "admin_cancel" /\ last.pre = "active") =>
        /\ EventJobs(last.id) = {}
        /\ EventUserJobs(last.id) = {}

FireOps == {"fire", "fire_user"}

\* C17: a job callback that starts to run for a cancelled event sends no
\* message and marks no chat as awaiting feedback.
C17_CancelledFiresNothing ==
    [][(/\ last'.op \in FireOps
        /\ HasEvent(events, last'.id)
        /\ classify_status(EventAt(last'.id), now) = "cancelled")
       => /\ fired'.attempted = << >>
          /\ fired'.sent = << >>
          /\ awaiting_feedback' = awaiting_feedback]_vars

\* a callback has just run for an event that is cancelled
C17_Witness ==
    /\ last.op \in FireOps
    /\ HasEvent(events, last.id)
    /\ classify_status(EventAt(last.id), now) = "cancelled"
    /\ fired.kind # "none"

BroadcastKinds == {"day", "hour", "start", "feedback"}

\* C18: in every broadcast callback a failing send does not abort the
\* delivery: a send is attempted for every chat of the roster read and the
\* callback runs to its end.
C18_FailureIsolated ==
    (last.op = "fire" /\ fired.kind \in BroadcastKinds /\ fired.roster # << >>)
    => /\ fired.attempted = fired.roster
       /\ fired.completed

OwnRoster(event_id) == SheetChats(rows, EventAt(event_id).sheet_name)

\* C19: when the feedback job has fired for an event that is not cancelled,
\* every chat of the event's roster is in the awaiting-feedback set and no
\* job of the event is left in either registry.
C19_FeedbackMarksRoster ==
    (/\ last.op = "fire"
     /\ fired.kind = "feedback"
     /\ HasEvent(events, last.id)
     /\ classify_status(EventAt(last.id), now) # "cancelled")
    => /\ SeqRange(OwnRoster(last.id)) \subseteq awaiting_feedback
       /\ EventJobs(last.id) = {}
       /\ EventUserJobs(last.id) = {}

\* C20: a day, hour or start broadcast of an event that is not cancelled
\* attempts exactly one send per chat of that event's own roster, whatever
\* event the pointer names when it fires.
C20_BroadcastToOwnRoster ==
    (/\ last.op = "fire"
     /\ fired.kind \in {"day", "hour", "start"}
     /\ HasEvent(events, last.id)
     /\ classify_status(EventAt(last.id), now) # "cancelled")
    => fired.attempted = OwnRoster(last.id)

----------------------------------------------------------------------------
(* Properties of the personal reminders.                                   *)

\* the chat of the last registration
RegisteredChat == CHOOSE c \in Chats : Str(c)[1] = last.pre

\* the personal jobs keyed to the pair, by name or by job data
KeyedToPair(j, event_id, chat_id) ==
    \/ StartsWith(j.name, _user_job_prefix(event_id) \o Str(chat_id) \o <<"::">>)
    \/ (j.event_id = event_id /\ j.chat_id = chat_id)

PairJobs(event_id, chat_id) ==
    SelectSeq(user_jobs, LAMBDA j : KeyedToPair(j, event_id, chat_id))

\* the personal reminders of an event that are still ahead
DueLabels(event_id) ==
    {r \in {[label |-> "day", run_time |-> StartOf(event_id) - Day],
             [label |-> "hour", run_time |-> StartOf(event_id) - Hour]} :
        r.run_time > now}

\* C21: after plan_user_event_reminders(chat, event), whatever jobs existed
\* before, an event that is not active (or has started) has no personal job
\* for the pair; otherwise the pair's jobs are exactly the day job at
\* start - 24h and the hour job at start - 1h whose time is after now, each
\* once, and never a start or feedback job.
C21_PlanForJobs ==
    (last.op = "register" /\ last.id # NoId) =>
        LET mine == PairJobs(last.id, RegisteredChat)
        IN  IF ~HasEvent(events, last.id)
               \/ classify_status(EventAt(last.id), now) # "active"
               \/ StartOf(last.id) <= now
            THEN mine = << >>
            ELSE /\ {[label |-> mine[i].label, run_time |-> mine[i].run_time] :
                        i \in DOMAIN mine} = DueLabels(last.id)
                 /\ Len(mine) = Cardinality(DueLabels(last.id))
                 /\ \A i \in DOMAIN mine :
                        mine[i].name = _user_job_name(last.id, RegisteredChat,
                                                      mine[i].label)

\* a chat registers for an active event that starts within the day: only
\* the hour job is planned
C21_Witness ==
    /\ last.op = "register"
    /\ last.id # NoId
    /\ HasEvent(events, last.id)
    /\ classify_status(EventAt(last.id), now) = "active"
    /\ StartOf(last.id) - Day <= now
    /\ Len(PairJobs(last.id, RegisteredChat)) = 1
    /\ PairJobs(last.id, RegisteredChat)[1].label = "hour"

ResetOps == {"deep_link", "reset"}

ChatsWithJobs(event_id) == {user_jobs[i].chat_id : i \in EventUserJobs(event_id)}

\* C23: after replan_event_user_reminders(event) on an active event the
\* chats holding personal jobs of the event are exactly the chats on the
\* event's roster that still have a reminder time ahead (the hour reminder
\* is the last one); on an event that is not active no personal job of the
\* event remains.
C23_ReplanAllRoster ==
    (PlanRan /\ PlannedId # NoId /\ HasEvent(events, PlannedId)) =>
        IF classify_status(EventAt(PlannedId), now) = "active"
        THEN ChatsWithJobs(PlannedId) =
                {c \in SeqRange(OwnRoster(PlannedId)) :
                    StartOf(PlannedId) - Hour > now}
        ELSE EventUserJobs(PlannedId) = {}

\* a re-plan of an active event whose roster holds a chat gave that chat
\* its jobs
C23_Witness ==
    /\ PlanRan
    /\ PlannedId # NoId
    /\ HasEvent(events, PlannedId)
    /\ classify_status(EventAt(PlannedId), now) = "active"
    /\ OwnRoster(PlannedId) # << >>
    /\ ChatsWithJobs(PlannedId) = SeqRange(OwnRoster(PlannedId))

----------------------------------------------------------------------------
(* Properties of the event index.                                          *)

\* the snapshot a page read finds: the cache, or the index file when the
\* cache is empty
FoundSnapshot == IF index.keys # {} THEN index ELSE index.file

\* C25: a page read rebuilds the index first when it finds no snapshot,
\* a cleared fetched_at or a snapshot of 5 minutes or more, and leaves the
\* snapshot as it is when it is younger; so the page it returns comes from
\* a snapshot younger than 5 minutes.
C25_StalenessWindow ==
    [][last'.op = "page_read" =>
        /\ IF \/ FoundSnapshot.keys = {}
               \/ FoundSnapshot.fetched_at = NoTime
               \/ now - FoundSnapshot.fetched_at >= 5
           THEN index'.fetched_at = now
           ELSE /\ index'.fetched_at = FoundSnapshot.fetched_at
                /\ index'.items = FoundSnapshot.items
        /\ index'.fetched_at # NoTime
        /\ now - index'.fetched_at < 5]_vars

\* a page was served from a snapshot taken minutes before
C25_Witness ==
    /\ last.op = "page_read"
    /\ index.fetched_at # NoTime
    /\ now - index.fetched_at \in 1..4

\* the ids the listing holds
ListedIds == {index.items[k].event_id : k \in DOMAIN index.items}

\* C26: the first page read after a mutation of the store (create, update,
\* cancel, set current) rebuilds the index and its listing shows the
\* mutation: every event of the store is listed and the page's events carry
\* the store's fields, however young the previous snapshot was.
C26_MutationRebuilds ==
    (last.op = "page_read" /\ last.page.was_dirty) =>
        /\ index.fetched_at = now
        /\ \A i \in DOMAIN events : events[i].event_id \in ListedIds
        /\ \A k \in DOMAIN last.page.items :
              HasEvent(events, last.page.items[k].event_id)
                  => last.page.items[k] = EventAt(last.page.items[k].event_id)

CeilDiv(a, b) == (a + b - 1) \div b

\* C27: for every requested page and page size get_events_page returns a
\* page number within 1..total_pages, total_pages = ceil(total / size), and
\* the entries of the index from (page-1)*size up to page*size, at most
\* size of them.
C27_PageClamped ==
    last.op = "page_read" =>
        LET r == last.page
            first == (r.page - 1) * r.size + 1
            upto == IF r.page * r.size < Len(index.items)
                    THEN r.page * r.size ELSE Len(index.items)
        IN  /\ r.total = Len(index.items)
            /\ r.total_pages = CeilDiv(r.total, r.size)
            /\ r.page \in 1..r.total_pages
            /\ Len(r.items) <= r.size
            /\ [k \in DOMAIN r.items |-> r.items[k].event_id]
                    = [k \in 1..(upto - first + 1) |->
                            index.items[first + k - 1].event_id]

\* C28: page 1 of size 5 on an empty store without rosters is
\* ([], total_pages 1, total 0, page 1).
C28_EmptyStorePage ==
    (/\ last.op = "page_read"
     /\ last.page.requested = 1
     /\ last.page.size = 5
     /\ events = << >>
     /\ _collect_sheet_index(sheets) = << >>)
    => /\ last.page.items = << >>
       /\ last.page.total_pages = 1
       /\ last.page.total = 0
       /\ last.page.page = 1

\* a page read that has just rebuilt the index
Refreshed == last.op = "page_read" /\ last.page.rebuilt

\* C29: after a refresh the whole listing, placeholders included, is in
\* the order of the key (status rank, later start first, title): no entry
\* stands before an entry with a smaller key.
C29_ListingSorted ==
    Refreshed =>
        \A i, j \in DOMAIN index.items :
            i < j => ~SortKeyLess(index.items[j].event, index.items[i].event, now)

\* the rosters of the backend that match no event, by sheet or by id
UnmatchedRosters ==
    {sheets[n] : n \in DOMAIN sheets} \cap
    {name \in {sheets[n] : n \in DOMAIN sheets} :
        /\ name \notin ReservedSheets
        /\ SHEET_NAME_PATTERN(name)
        /\ \A i \in DOMAIN events :
              name # events[i].event_id /\ name # SheetKey(events[i])}

EntriesOf(id) == {k \in DOMAIN index.items : index.items[k].event_id = id}

\* C30: after a refresh every event of the store is listed exactly once,
\* every roster of the backend that matches no event has exactly one
\* placeholder entry, nothing else is listed and no event_id is listed
\* twice.
C30_ListingComplete ==
    Refreshed =>
        /\ \A i \in DOMAIN events : Cardinality(EntriesOf(events[i].event_id)) = 1
        /\ \A name \in UnmatchedRosters :
              /\ Cardinality(EntriesOf(name)) = 1
              /\ \A k \in EntriesOf(name) : index.items[k].event.title = name
        /\ Len(index.items) = Len(events) + Cardinality(UnmatchedRosters)
        /\ \A k, l \in DOMAIN index.items :
              index.items[k].event_id = index.items[l].event_id => k = l

\* a refreshed listing that holds an event and a placeholder
C30_Witness ==
    /\ Refreshed
    /\ events # << >>
    /\ UnmatchedRosters # {}

\* the cached snapshots listed under an id
SnapshotsOf(id) == {index.items[k].event : k \in EntriesOf(id)}

\* C31: every item of a returned page whose event_id is in the store is
\* the store's live event, and its status is the status computed at the
\* time of the read, whatever the cached snapshot of the entry holds.
C31_PageItemsLive ==
    last.op = "page_read" =>
        \A i \in DOMAIN last.page.items :
            LET ev == last.page.items[i]
            IN  HasEvent(events, ev.event_id) =>
                    /\ ev = EventAt(ev.event_id)
                    /\ ev.status = classify_status(ev, now)

\* a page read served from a snapshot that is behind the store: the
\* event has started or was changed since the snapshot was taken
C31_Witness ==
    /\ last.op = "page_read"
    /\ ~last.page.rebuilt
    /\ \E i \in DOMAIN last.page.items :
          LET ev == last.page.items[i]
          IN  /\ HasEvent(events, ev.event_id)
              /\ \E snap \in SnapshotsOf(ev.event_id) :
                    snap.status # ev.status

\* C32: each registry holds at most one job per (event_id, chat_id or
\* none, kind) at every moment: no two entries of the broadcast registry
\* share an id, and no two entries of the personal registry share the
\* event, the chat and the label.
C32_OneJobPerKey ==
    /\ \A i, j \in DOMAIN jobs : jobs[i].id = jobs[j].id => i = j
    /\ \A i, j \in DOMAIN user_jobs :
          (/\ user_jobs[i].event_id = user_jobs[j].event_id
           /\ user_jobs[i].chat_id = user_jobs[j].chat_id
           /\ user_jobs[i].label = user_jobs[j].label) => i = j

\* C33: when the spreadsheet is out of reach while the reminders of an
\* active future event are planned, the planning returns to its caller
\* without raising and the event's broadcast jobs are in the registry.
C33_PlanSurvivesOutage ==
    (/\ last.op = "plan_outage"
     /\ last.id # NoId
     /\ HasEvent(events, last.id)
     /\ classify_status(EventAt(last.id), now) = "active")
    => /\ last.pre = "returned"
       /\ HasJobs(jobs, last.id)

\* the global jobs are planned also when the roster cannot be read
PlanOutageKeepsJobs ==
    (/\ last.op = "plan_outage"
     /\ last.id # NoId
     /\ HasEvent(events, last.id)
     /\ classify_status(EventAt(last.id), now) = "active")
    => HasJobs(jobs, last.id)

\* C40: a create during which a call to the spreadsheet fails leaves the
\* store as it was: no event is added, no earlier event is forced to
\* 'past' (the statuses are at most refreshed to their computed values),
\* and the current-event pointer and the settings mirror are unchanged.
C40_FailedCreateLeavesStore ==
    [][last'.op = "create_outage" /\ ops' = ops + 1
        => /\ events' \in {events, _auto_update_status(events, now)}
           /\ current_event_id' = current_event_id
           /\ settings' = settings]_vars

\* the reads of the store
ReadOps == {"get", "current", "list", "get_page"}

\* some non-cancelled event's persisted status is not its computed status
StatusDiffers(evs, t) ==
    \E i \in DOMAIN evs :
        /\ evs[i].status # "cancelled"
        /\ evs[i].status # classify_status(evs[i], t)

\* C34: a read of the store (get, current, list, get_page) writes the
\* event document exactly when some non-cancelled event's persisted status
\* differs from its computed status; after such a read every
\* non-cancelled event with a valid start has its computed status, and
\* when nothing differs the events and the pointer are left as they were.
C34_ReadWritesIffDiffers ==
    [][last'.op \in ReadOps /\ ops' = ops + 1
        => /\ (events' # events \/ current_event_id' # current_event_id)
                <=> StatusDiffers(events, now)
           /\ StatusDiffers(events, now) =>
                \A i \in DOMAIN events' :
                    (/\ events'[i].status # "cancelled"
                     /\ _event_local_datetime(events'[i]) # NoInstant)
                    => events'[i].status = classify_status(events'[i], now)]_vars

\* the order of the four broadcast jobs
FourKinds == <<"day", "hour", "start", "feedback">>

KindRank(kind) == CHOOSE n \in DOMAIN FourKinds : FourKinds[n] = kind

\* the kinds of the broadcast firings of an event, in the order they ran
LogOf(event_id) ==
    LET mine == SelectSeq(hist.log, LAMBDA e :
                    e.event_id = event_id /\ e.kind \in BroadcastKinds)
    IN  [k \in DOMAIN mine |-> mine[k].kind]

\* all four jobs of the event are in the registry
PlannedEarly(i) ==
    /\ i \in DOMAIN events
    /\ FourKeys(events[i].event_id) \subseteq {jobs[k].id : k \in DOMAIN jobs}

FiredInOrder(i) ==
    i \in DOMAIN events =>
        LET log == LogOf(events[i].event_id)
        IN  \A a, b \in DOMAIN log : a < b => KindRank(log[a]) < KindRank(log[b])

AllFourFired(i) ==
    /\ i \in DOMAIN events
    /\ LogOf(events[i].event_id) = FourKinds
    /\ ~HasJobs(jobs, events[i].event_id)

PlannedLate(i) ==
    i \in DOMAIN events /\ events[i].event_id \in hist.late_plans

DeliveriesTo(event_id, chat_id, label) ==
    {k \in DOMAIN hist.log :
        /\ hist.log[k].event_id = event_id
        /\ hist.log[k].kind \in {label, IF label = "day" THEN "user_day"
                                                          ELSE "user_hour"}
        /\ chat_id \in SeqRange(hist.log[k].sent)}

\* C36: for one event a chat is sent at most one day-before reminder and
\* at most one hour-before reminder, broadcast and personal jobs taken
\* together.
C36_OneReminderPerKind ==
    \A i \in DOMAIN events, chat_id \in Chats, label \in {"day", "hour"} :
        Cardinality(DeliveriesTo(events[i].event_id, chat_id, label)) <= 1

\* the store as cancel_yes leaves it before it shows the list: the event
\* is cancelled and, being the current one, the pointer is cleared
ClearedByCancel(event_id) ==
    LET S2 == update_event(get_event(Cur, event_id, now), event_id, CancelFields, now)
    IN  IF S2.cur = event_id THEN set_current_event(S2, NoId, now) ELSE S2

\* C37: a rebuild or a read of the index leaves the current-event pointer
\* as it was, in every state the store is in; once the current event is
\* cancelled and the pointer cleared, the pointer is still None after the
\* rebuild and the page read that follow.
C37_IndexKeepsPointer ==
    /\ events_bootstrap(Cur, now).cur = current_event_id
    /\ _show_event_list(Cur, now).cur = current_event_id
    /\ \A i \in DOMAIN events :
          (/\ events[i].event_id = current_event_id
           /\ classify_status(events[i], now) = "active")
          => LET S3 == ClearedByCancel(current_event_id)
             IN  /\ S3.cur = NoId
                 /\ events_bootstrap(S3, now).cur = NoId
                 /\ _show_event_list(S3, now).cur = NoId

\* the settings mirror names the event the pointer names, with its start,
\* and names nothing when the pointer is None
MirrorAgrees(S) ==
    IF S.cur = NoId
    THEN /\ S.settings.current_event_id = NoId
         /\ S.settings.current_event_datetime = EmptyDt
    ELSE /\ S.settings.current_event_id = S.cur
         /\ HasEvent(S.events, S.cur)
         /\ S.settings.current_event_datetime = StoreEvent(S, S.cur).datetime_local

\* C38: after a set_current_event call the settings mirror agrees with the
\* pointer: for the call that names an event of the store, and for the
\* call with None that cancel_yes makes for the current event, after which
\* a plan leaves no job of that event.
C38_MirrorFollowsPointer ==
    /\ \A id \in EventIds : MirrorAgrees(set_current_event(Cur, id, now))
    /\ \A i \in DOMAIN events :
          (/\ events[i].event_id = current_event_id
           /\ classify_status(events[i], now) = "active")
          => LET S3 == ClearedByCancel(current_event_id)
                 W == schedule_all_reminders(
                        World(S3, jobs, user_jobs, rows, awaiting_feedback), now)
             IN  /\ S3.cur = NoId
                 /\ MirrorAgrees(S3)
                 /\ ~HasJobs(W.jobs, current_event_id)

\* C39: whatever runs between the sends of a broadcast, no reminder of
\* an event is sent once the event is cancelled, and none is sent to a
\* chat that has left the roster.
C39_NoSendAfterCancelOrLeave ==
    [][(last'.op = "send" /\ "sent" \in last'.keys /\ ops' = ops + 1)
        => /\ classify_status(EventAt(last'.id), now) # "cancelled"
           /\ \E r \in DOMAIN rows :
                /\ rows[r].sheet = EventAt(last'.id).sheet_name
                /\ Str(rows[r].chat_id)[1] = last'.pre]_vars

====
